---- MODULE Spec2Model ----
(***************************************************************************)
(* A model of the quant-mvp backtest core: engine/portfolio.py (Portfolio),*)
(* engine/risk.py (RiskManager), engine/scheduler.py (Scheduler) and the   *)
(* replay loop of engine/backtest.py (run_backtest).                       *)
(*                                                                         *)
(* Money is an integer number of 1/1000 yuan.  The code computes in binary *)
(* floating point; the model computes the same expressions in exact        *)
(* arithmetic.  Prices are drawn from whole yuan and fee rates are whole   *)
(* per-mille values, so every fee is an exact integer.                     *)
(* A weight or a ratio is a pair <<num, den>> with den > 0.                *)
(***************************************************************************)
EXTENDS Integers, Sequences, FiniteSets, TLC

\* money units per yuan
YUAN == 1000
\* a rate r per mille stands for the float r / 1000 (fee_rate = 0.001 is 1)
PER_MILLE == 1000

\* ---- bounds of the model --------------------------------------------------
\* longest replay calendar (number of timestamps of trade_days)
MaxBars == 3
\* most Portfolio calls of one harness run
MaxCalls == 5

Codes == {"A", "B"}

\* ---- dict helpers (a dict is a function on a subset of its keys) ----------
EmptyDict == [x \in {} |-> 0]
Get(d, k, default) == IF k \in DOMAIN d THEN d[k] ELSE default
Put(d, k, v) == [x \in (DOMAIN d) \cup {k} |-> IF x = k THEN v ELSE d[x]]
\* a removal that leaves the key behind with the value 0
KeepZero(d, k) == [d EXCEPT ![k] = 0]
Del(d, k) == [x \in (DOMAIN d) \ {k} |-> d[x]]

\* floor(a * n / d) for a >= 0, n >= 0, d > 0, without forming a * n
MulDivFloor(a, n, d) == (a \div d) * n + ((a % d) * n) \div d
\* ceil(a * n / d) for a >= 0, n >= 0, d > 0, without forming a * n
MulDivCeil(a, n, d) == (a \div d) * n + ((a % d) * n + d - 1) \div d

\* ratio comparison: x <= y for pairs <<num, den>>
RatLeq(x, y) == x[1] * y[2] <= y[1] * x[2]

\* ===========================================================================
\* RiskManager (engine/risk.py)
\* ===========================================================================

\* RiskManager(): the defaults of __init__; peak_value None is <<>>
DefaultRiskManager ==
    [max_position_pct |-> <<3, 10>>, max_drawdown |-> <<1, 5>>,
     stop_loss_pct |-> <<>>, peak_value |-> <<>>]

\* a range test that lets 0 through
InClosedUnitRange(x) == 0 <= x[1] /\ x[1] <= x[2]
\* 0 < x <= 1, the range __init__ demands of each threshold
InUnitRange(x) == 0 < x[1] /\ x[1] <= x[2]

\* __init__'s validation: TRUE iff the constructor raises ValueError
RiskInitRaises(mpp, mdd, sl) ==
    \/ ~InUnitRange(mpp)
    \/ ~InUnitRange(mdd)
    \/ (sl # <<>> /\ ~InUnitRange(sl[1]))

NewRiskManager(mpp, mdd, sl) ==
    [max_position_pct |-> mpp, max_drawdown |-> mdd,
     stop_loss_pct |-> sl, peak_value |-> <<>>]

\* a cap without the test for a negative weight
cap_position_signed(rm, target_weight) ==
    IF RatLeq(target_weight, rm.max_position_pct) THEN target_weight
    ELSE rm.max_position_pct
\* a cap that lets every weight through
cap_position_none(rm, target_weight) == target_weight
\* cap_position: negative -> 0, else min(target_weight, max_position_pct)
cap_position(rm, target_weight) ==
    IF target_weight[1] < 0 THEN <<0, 1>>
    ELSE IF RatLeq(target_weight, rm.max_position_pct) THEN target_weight
    ELSE rm.max_position_pct

\* drawdown >= max_drawdown, with drawdown = (peak - value) / peak, peak > 0
DrawdownBreached(peak, value, max_drawdown) ==
    peak - value >= MulDivCeil(peak, max_drawdown[1], max_drawdown[2])

\* a check_portfolio that takes the value passed as the peak
check_portfolio_last(rm, portfolio_value) ==
    IF portfolio_value < 0 THEN [ret |-> "false", rm |-> rm]
    ELSE [ret |-> IF portfolio_value = 0 THEN "raise" ELSE "true",
          rm |-> [rm EXCEPT !.peak_value = <<portfolio_value>>]]
\* check_portfolio: the returned value ("true", "false", or "raise" for the
\* ZeroDivisionError of a zero peak) and the manager afterwards
check_portfolio(rm, portfolio_value) ==
    IF portfolio_value < 0 THEN [ret |-> "false", rm |-> rm]
    ELSE LET p0 == IF rm.peak_value = <<>> THEN portfolio_value
                   ELSE rm.peak_value[1]
             peak == IF p0 >= portfolio_value THEN p0 ELSE portfolio_value
             rm2 == [rm EXCEPT !.peak_value = <<peak>>]
         IN  IF peak = 0 THEN [ret |-> "raise", rm |-> rm2]
             ELSE IF DrawdownBreached(peak, portfolio_value, rm.max_drawdown)
                  THEN [ret |-> "false", rm |-> rm2]
                  ELSE [ret |-> "true", rm |-> rm2]

\* check_stop_loss: TRUE iff the stop loss fires; (entry - current) / entry
\* >= stop_loss_pct, with stop_loss_pct[1] the ratio when one is set
check_stop_loss(rm, entry_price, current_price) ==
    IF rm.stop_loss_pct = <<>> THEN FALSE
    ELSE IF entry_price <= 0 THEN FALSE
    ELSE (entry_price - current_price) * rm.stop_loss_pct[1][2]
             >= rm.stop_loss_pct[1][1] * entry_price

\* ===========================================================================
\* Portfolio (engine/portfolio.py)
\* ===========================================================================

\* Portfolio(init_cash)
NewPortfolio(init_cash) ==
    [init_cash |-> init_cash, cash |-> init_cash,
     positions_hold |-> EmptyDict, positions_today |-> EmptyDict,
     prices |-> EmptyDict,
     equity_curve |-> <<>>, daily_pnl |-> <<>>, daily_trades |-> <<>>,
     last_total |-> init_cash]

\* an on_new_day that zeroes the pending entries instead of clearing them
on_new_day_zeroed(p) ==
    [p EXCEPT
       !.positions_hold =
           [c \in (DOMAIN p.positions_hold) \cup (DOMAIN p.positions_today) |->
               Get(p.positions_hold, c, 0) + Get(p.positions_today, c, 0)],
       !.positions_today = [c \in DOMAIN p.positions_today |-> 0]]
\* an on_new_day that replaces the settled shares by the pending ones
on_new_day_overwrite(p) ==
    [p EXCEPT
       !.positions_hold =
           [c \in (DOMAIN p.positions_hold) \cup (DOMAIN p.positions_today) |->
               IF c \in DOMAIN p.positions_today THEN p.positions_today[c]
               ELSE p.positions_hold[c]],
       !.positions_today = EmptyDict]
\* on_new_day: every pending entry is added to the settled book, then the
\* pending book is cleared
on_new_day(p) ==
    [p EXCEPT
       !.positions_hold =
           [c \in (DOMAIN p.positions_hold) \cup (DOMAIN p.positions_today) |->
               Get(p.positions_hold, c, 0) + Get(p.positions_today, c, 0)],
       !.positions_today = EmptyDict]

\* an update_price that caches whatever price it is given
update_price_any(p, code, price) == [p EXCEPT !.prices = Put(p.prices, code, price)]
\* update_price: price <= 0 is logged and ignored
update_price(p, code, price) ==
    IF price <= 0 THEN p ELSE [p EXCEPT !.prices = Put(p.prices, code, price)]

\* market value of one book: entries whose cached price is > 0
RECURSIVE BookValue(_, _, _)
BookValue(pos, prices, todo) ==
    IF todo = {} THEN 0
    ELSE LET c == CHOOSE x \in todo : TRUE
             price == Get(prices, c, 0)
         IN  (IF price > 0 THEN pos[c] * price ELSE 0)
             + BookValue(pos, prices, todo \ {c})

\* a valuation that leaves the pending book out
total_value_settled(p) ==
    p.cash + BookValue(p.positions_hold, p.prices, DOMAIN p.positions_hold)
\* total_value: cash plus both books at the cached prices
total_value(p) ==
    p.cash + BookValue(p.positions_hold, p.prices, DOMAIN p.positions_hold)
           + BookValue(p.positions_today, p.prices, DOMAIN p.positions_today)

\* a fee that applies fee_rate whatever the mode
FeeOfRateOnly(notional, fee) == MulDivFloor(notional, fee.fee_rate, PER_MILLE)
\* the fee of one order: 'rate+fixed' or (any other mode) 'rate'
FeeOf(notional, fee) ==
    IF fee.fee_mode = "rate+fixed"
    THEN MulDivFloor(notional, fee.fee_rate_pct, PER_MILLE) + fee.fee_fixed
    ELSE MulDivFloor(notional, fee.fee_rate, PER_MILLE)

\* a share count rounded up instead of truncated
TargetSharesRoundedUp(total, weight, price) ==
    (MulDivFloor(total, weight[1], weight[2]) + price - 1) \div price
\* int(total_value * weight / price)
TargetShares(total, weight, price) ==
    MulDivFloor(total, weight[1], weight[2]) \div price

\* a sell that draws on the settled and the pending book alike
SellableBothBooks(p, code) ==
    Get(p.positions_hold, code, 0) + Get(p.positions_today, code, 0)
\* what a sell may draw on: the settled book only
Sellable(p, code) == Get(p.positions_hold, code, 0)

\* a rejection test that forgets the fee
InsufficientCashForCost(cash, cost, fee) == cash < cost
\* the buy leg's rejection test: self.cash < cost + fee
InsufficientCash(cash, cost, fee) == cash < cost + fee

TradeRecord(date, code, side, price, shares, amount, fee) ==
    [date |-> date, code |-> code, side |-> side, price |-> price,
     shares |-> shares, amount |-> amount, fee |-> fee]

\* a sell leg that closes the settled position whatever quantity it sold
SellLegClosesPosition(st, date, code, price, diff, fee) ==
    LET p == st.p
        sell_qty == IF -diff <= Sellable(p, code) THEN -diff
                    ELSE Sellable(p, code)
        proceeds == sell_qty * price
        f == FeeOf(proceeds, fee)
    IN  IF sell_qty <= 0 THEN st
        ELSE [p |-> [p EXCEPT
                       !.cash = p.cash + proceeds - f,
                       !.positions_hold = Del(p.positions_hold, code)],
              trades |-> Append(st.trades,
                  TradeRecord(date, code, "SELL", price, sell_qty, proceeds, f))]

\* the sell leg of one order; st = [p |-> portfolio, trades |-> trades_today]
SellLeg(st, date, code, price, diff, fee) ==
    LET p == st.p
        sell_qty == IF -diff <= Sellable(p, code) THEN -diff
                    ELSE Sellable(p, code)
        proceeds == sell_qty * price
        f == FeeOf(proceeds, fee)
        left == Get(p.positions_hold, code, 0) - sell_qty
    IN  IF sell_qty <= 0 THEN st
        ELSE [p |-> [p EXCEPT
                       !.cash = p.cash + proceeds - f,
                       !.positions_hold =
                           IF left = 0 THEN Del(p.positions_hold, code)
                           ELSE Put(p.positions_hold, code, left)],
              trades |-> Append(st.trades,
                  TradeRecord(date, code, "SELL", price, sell_qty, proceeds, f))]

\* a buy leg that records the fee but does not charge it
BuyLegFeeFree(st, date, code, price, diff, fee) ==
    LET p == st.p
        cost == diff * price
        f == FeeOf(cost, fee)
    IN  IF InsufficientCash(p.cash, cost, f) THEN st
        ELSE [p |-> [p EXCEPT
                       !.cash = p.cash - cost,
                       !.positions_today =
                           Put(p.positions_today, code,
                               Get(p.positions_today, code, 0) + diff)],
              trades |-> Append(st.trades,
                  TradeRecord(date, code, "BUY", price, diff, cost, f))]

\* the buy leg of one order
BuyLeg(st, date, code, price, diff, fee) ==
    LET p == st.p
        cost == diff * price
        f == FeeOf(cost, fee)
    IN  IF InsufficientCash(p.cash, cost, f) THEN st
        ELSE [p |-> [p EXCEPT
                       !.cash = p.cash - (cost + f),
                       !.positions_today =
                           Put(p.positions_today, code,
                               Get(p.positions_today, code, 0) + diff)],
              trades |-> Append(st.trades,
                  TradeRecord(date, code, "BUY", price, diff, cost, f))]

\* the share difference rebalance computes for one (code, weight) item
OrderDiff(p, rm, total, code, weight) ==
    TargetShares(total, cap_position(rm, weight), p.prices[code])
    - (Get(p.positions_hold, code, 0) + Get(p.positions_today, code, 0))

\* one iteration of rebalance's loop over target_weights.items()
RebalanceItem(st, date, rm, total, fee, code, weight) ==
    LET p == st.p IN
    IF Get(p.prices, code, 0) <= 0 THEN st
    ELSE LET diff == OrderDiff(p, rm, total, code, weight) IN
         IF diff < 0 THEN SellLeg(st, date, code, p.prices[code], diff, fee)
         ELSE IF diff > 0 THEN BuyLeg(st, date, code, p.prices[code], diff, fee)
         ELSE st

\* a loop that measures the total value again before every item
RECURSIVE RebalanceLoopRemeasured(_, _, _, _, _, _, _)
RebalanceLoopRemeasured(st, date, target_weights, k, rm, total, fee) ==
    IF k > Len(target_weights) THEN st
    ELSE RebalanceLoopRemeasured(
             RebalanceItem(st, date, rm, total_value(st.p), fee,
                           target_weights[k].code, target_weights[k].weight),
             date, target_weights, k + 1, rm, total, fee)

RECURSIVE RebalanceLoop(_, _, _, _, _, _, _)
RebalanceLoop(st, date, target_weights, k, rm, total, fee) ==
    IF k > Len(target_weights) THEN st
    ELSE RebalanceLoop(
             RebalanceItem(st, date, rm, total, fee,
                           target_weights[k].code, target_weights[k].weight),
             date, target_weights, k + 1, rm, total, fee)

\* a rebalance whose log keeps the trades of the last call only
rebalance_reset(p, date, target_weights, rm, fee) ==
    LET st == RebalanceLoop([p |-> p, trades |-> <<>>], date, target_weights,
                            1, rm, total_value(p), fee)
    IN  [p |-> [st.p EXCEPT !.daily_trades = st.trades], trades |-> st.trades]

\* rebalance: total_value is measured once, the items run in dict order, the
\* trades are appended to daily_trades and returned
rebalance(p, date, target_weights, rm, fee) ==
    LET st == RebalanceLoop([p |-> p, trades |-> <<>>], date, target_weights,
                            1, rm, total_value(p), fee)
    IN  [p |-> [st.p EXCEPT !.daily_trades = p.daily_trades \o st.trades],
         trades |-> st.trades]

\* record_daily's cash flow of a trade list: buys negative, sells positive
RECURSIVE CashFlow(_, _)
CashFlow(trades, k) ==
    IF k > Len(trades) THEN 0
    ELSE LET t == trades[k]
             amt == t.price * t.shares
         IN  (IF t.side = "BUY" THEN -(amt + t.fee) ELSE amt - t.fee)
             + CashFlow(trades, k + 1)

\* record_daily: one equity point, one P&L point, the baseline moves on
record_daily(p, date, trades_today) ==
    LET total == total_value(p)
        pnl == total - p.last_total - CashFlow(trades_today, 1)
        ret == IF p.last_total > 0 THEN <<pnl, p.last_total>> ELSE <<0, 1>>
    IN  [p EXCEPT
           !.equity_curve = Append(p.equity_curve,
               [date |-> date, total |-> total, cash |-> p.cash]),
           !.daily_pnl = Append(p.daily_pnl,
               [date |-> date, pnl |-> pnl, return |-> ret, total |-> total]),
           !.last_total = total]

\* ===========================================================================
\* Scheduler (engine/scheduler.py)
\* ===========================================================================

\* a timestamp: the session date and the wall-clock hour and minute
Timestamp(date, hour, minute) == [date |-> date, hour |-> hour, minute |-> minute]

\* a string is the sequence of its characters
Digit == <<"0", "1", "2", "3", "4", "5", "6", "7", "8", "9">>
TwoDigits(n) == <<Digit[(n \div 10) + 1], Digit[(n % 10) + 1]>>
\* dt.strftime("%H:%M")
FormatHHMM(dt) == TwoDigits(dt.hour) \o <<":">> \o TwoDigits(dt.minute)

AFTER_CLOSE == <<"a", "f", "t", "e", "r", "_", "c", "l", "o", "s", "e">>

\* Scheduler()
NewScheduler == [daily_tasks |-> <<>>, after_close_tasks |-> <<>>]

\* a shape test that looks at the length only
IsFiveChars(time) == Len(time) = 5
\* the shape run_daily accepts as a time of day: len(time) == 5 and
\* time[2] == ":" (0-based index 2)
IsTimeOfDay(time) == Len(time) = 5 /\ time[3] = ":"

\* run_daily: the scheduler afterwards; ok is FALSE for the ValueError
run_daily(sch, func, time) ==
    IF time = AFTER_CLOSE
    THEN [ok |-> TRUE,
          sch |-> [sch EXCEPT !.after_close_tasks = Append(@, func)]]
    ELSE IF IsTimeOfDay(time)
         THEN [ok |-> TRUE,
               sch |-> [sch EXCEPT !.daily_tasks =
                                     Append(@, [func |-> func, time |-> time])]]
         ELSE [ok |-> FALSE, sch |-> sch]

\* _match_time
match_time(dt, time_str) == FormatHHMM(dt) = time_str

\* func(context): what one callback does when called, given the set of
\* callbacks that raise at this call
Invoke(func, raising) == IF func \in raising THEN "raise" ELSE "return"

\* a call made outside try/except: its exception leaves the loop
Unguarded(outcome) == outcome
\* try: func(context) / except Exception: logger.error(...), whatever the
\* callback did, the loop goes on
Guarded(outcome) == "return"

\* Scheduler.on_bar, the loop over daily_tasks from its k-th entry: the calls
\* made, in order, and how the loop ended
RECURSIVE DispatchTimed(_, _, _, _)
DispatchTimed(tasks, k, dt, raising) ==
    IF k > Len(tasks) THEN [calls |-> <<>>, ret |-> "return"]
    ELSE IF ~match_time(dt, tasks[k].time)
         THEN DispatchTimed(tasks, k + 1, dt, raising)
         ELSE LET out == Invoke(tasks[k].func, raising)
                  this == [func |-> tasks[k].func, raised |-> out = "raise"]
                  rest == DispatchTimed(tasks, k + 1, dt, raising)
              IN  IF Guarded(out) = "raise"
                  THEN [calls |-> <<this>>, ret |-> "raise"]
                  ELSE [calls |-> <<this>> \o rest.calls, ret |-> rest.ret]

scheduler_on_bar(sch, dt, raising) == DispatchTimed(sch.daily_tasks, 1, dt, raising)

\* Scheduler.on_after_close, the loop over after_close_tasks from its k-th
\* entry
RECURSIVE DispatchAfterClose(_, _, _)
DispatchAfterClose(tasks, k, raising) ==
    IF k > Len(tasks) THEN [calls |-> <<>>, ret |-> "return"]
    ELSE LET out == Invoke(tasks[k], raising)
             this == [func |-> tasks[k], raised |-> out = "raise"]
             rest == DispatchAfterClose(tasks, k + 1, raising)
         IN  IF Guarded(out) = "raise"
             THEN [calls |-> <<this>>, ret |-> "raise"]
             ELSE [calls |-> <<this>> \o rest.calls, ret |-> rest.ret]

scheduler_on_after_close(sch, raising) ==
    DispatchAfterClose(sch.after_close_tasks, 1, raising)

\* ===========================================================================
\* Metrics (engine/metrics.py)
\* ===========================================================================

\* a / b < c / d for a, c >= 0 and b, d > 0, by the continued fractions of
\* the two ratios (no product is formed)
RECURSIVE FracLess(_, _, _, _)
FracLess(a, b, c, d) ==
    IF a \div b # c \div d THEN a \div b < c \div d
    ELSE IF c % d = 0 THEN FALSE
    ELSE IF a % b = 0 THEN TRUE
    ELSE FracLess(d, c % d, b, a % b)

\* (later - earlier).days: whole days, rounded down
DaysBetween(earlier, later) ==
    (later.date - earlier.date)
        - (IF later.hour * 60 + later.minute < earlier.hour * 60 + earlier.minute
           THEN 1 ELSE 0)

\* a scan that moves the peak index to every point that equals the peak
RECURSIVE DrawdownLoopLatestPeak(_, _, _)
DrawdownLoopLatestPeak(curve, k, st) ==
    IF k > Len(curve) THEN st
    ELSE LET val == curve[k].total
             higher == val >= st.peak
             peak == IF higher THEN val ELSE st.peak
             peak_idx == IF higher THEN k ELSE st.peak_idx
             dd == IF peak > 0 THEN <<peak - val, peak>> ELSE <<0, 1>>
             st1 == [st EXCEPT !.peak = peak, !.peak_idx = peak_idx]
         IN  DrawdownLoopLatestPeak(curve, k + 1,
                 IF FracLess(st.max_dd[1], st.max_dd[2], dd[1], dd[2])
                 THEN [st1 EXCEPT !.max_dd = dd,
                                  !.dd_start = <<curve[peak_idx].date>>,
                                  !.dd_end = <<curve[k].date>>]
                 ELSE st1)

\* calc_drawdown, the loop over the totals from the k-th on; st holds
\* max_dd, peak, peak_idx, dd_start and dd_end (None is <<>>)
RECURSIVE DrawdownLoop(_, _, _)
DrawdownLoop(curve, k, st) ==
    IF k > Len(curve) THEN st
    ELSE LET val == curve[k].total
             higher == val > st.peak
             peak == IF higher THEN val ELSE st.peak
             peak_idx == IF higher THEN k ELSE st.peak_idx
             dd == IF peak > 0 THEN <<peak - val, peak>> ELSE <<0, 1>>
             st1 == [st EXCEPT !.peak = peak, !.peak_idx = peak_idx]
         IN  DrawdownLoop(curve, k + 1,
                 IF FracLess(st.max_dd[1], st.max_dd[2], dd[1], dd[2])
                 THEN [st1 EXCEPT !.max_dd = dd,
                                  !.dd_start = <<curve[peak_idx].date>>,
                                  !.dd_end = <<curve[k].date>>]
                 ELSE st1)

\* calc_drawdown of the equity table
calc_drawdown(curve) ==
    IF curve = <<>>
    THEN [max_drawdown |-> <<0, 1>>, start |-> <<>>, end |-> <<>>, duration |-> 0]
    ELSE LET st == DrawdownLoop(curve, 1,
                       [max_dd |-> <<0, 1>>, peak |-> curve[1].total, peak_idx |-> 1,
                        dd_start |-> <<>>, dd_end |-> <<>>])
         IN  [max_drawdown |-> st.max_dd, start |-> st.dd_start, end |-> st.dd_end,
              duration |-> IF st.dd_start # <<>> /\ st.dd_end # <<>>
                           THEN DaysBetween(st.dd_start[1], st.dd_end[1]) ELSE 0]

\* ===========================================================================
\* State
\* ===========================================================================
VARIABLES
    portfolio,       \* the Portfolio object
    risk_mgr,        \* the RiskManager object
    scheduler,       \* strategy.scheduler
    call,            \* the last Portfolio call, its arguments and what it
                     \* returned
    day,             \* harness: the caller's session day (on_new_day calls)
    trade_days,      \* run_backtest: the replay calendar
    is_minute_data,  \* run_backtest: intraday mode detected
    fee_args,        \* the fee arguments every rebalance call is given
    ncalls,          \* harness: state-changing calls made so far
    i,               \* run_backtest: loop index (0-based)
    pc,              \* run_backtest: the next step of the loop body
    target_weights,  \* run_backtest: what strategy.on_bar returned
    trades_today,    \* run_backtest: what portfolio.rebalance returned
    current_value,   \* run_backtest: total value handed to check_portfolio
    other_data,      \* run_backtest: the DataFrame of the second instrument
    trace,           \* run_backtest: the calls made so far, in order
    result           \* run_backtest: the returned dict, <<>> before return

vars == <<portfolio, risk_mgr, scheduler, call, day, trade_days,
          is_minute_data, fee_args, ncalls, i, pc, target_weights, trades_today,
          current_value, other_data, trace, result>>

engine_vars == <<scheduler, fee_args, trade_days, is_minute_data, i, pc,
                 target_weights, trades_today, current_value, other_data, trace,
                 result>>

W(code, num, den) == [code |-> code, weight |-> <<num, den>>]

\* the keyword arguments of rebalance that select and parametrise the fee
FeeArgs(rate, mode, pct, fixed) ==
    [fee_rate |-> rate, fee_mode |-> mode, fee_rate_pct |-> pct, fee_fixed |-> fixed]

\* ===========================================================================
\* Portfolio harness: a caller makes Portfolio calls in any order
\* ===========================================================================
HarnessCash == {10 * YUAN}
HarnessPrices == {-1 * YUAN, 0, 1 * YUAN, 2 * YUAN}
HarnessRiskManagers ==
    {NewRiskManager(<<1, 2>>, <<1, 5>>, <<>>), NewRiskManager(<<9, 10>>, <<1, 5>>, <<>>)}
HarnessFees ==
    {FeeArgs(2, "rate", 1, 5 * YUAN), FeeArgs(1, "rate+fixed", 1, 5 * YUAN)}
HarnessTargets ==
    {<<W("A", -1, 2)>>, <<W("A", 0, 1)>>, <<W("A", 3, 10)>>, <<W("A", 1, 1)>>,
     <<W("A", 3, 2)>>,
     <<W("A", 1, 1), W("B", 3, 10)>>,
     <<W("A", 0, 1), W("B", 1, 1)>>,
     <<W("B", 1, 1), W("A", 0, 1)>>}

NoCall == [op |-> "none"]

InitPortfolio ==
    /\ \E c \in HarnessCash : portfolio = NewPortfolio(c)
    /\ risk_mgr \in HarnessRiskManagers
    /\ fee_args \in HarnessFees
    /\ scheduler = NewScheduler
    /\ call = NoCall
    /\ day = 0
    /\ ncalls = 0
    /\ trade_days = <<>>
    /\ is_minute_data = FALSE
    /\ i = 0
    /\ pc = "harness"
    /\ target_weights = <<>>
    /\ trades_today = <<>>
    /\ current_value = 0
    /\ other_data = "none"
    /\ trace = <<>>
    /\ result = <<>>

Today == Timestamp(day, 0, 0)

CallUpdatePrice ==
    \E code \in Codes, price \in HarnessPrices :
        /\ pc = "harness"
        /\ ncalls < MaxCalls
        /\ ncalls' = ncalls + 1
        /\ portfolio' = update_price(portfolio, code, price)
        /\ call' = [op |-> "update_price", code |-> code, price |-> price]
        /\ UNCHANGED <<risk_mgr, day, engine_vars>>

CallOnNewDay ==
    /\ pc = "harness"
    /\ ncalls < MaxCalls
    /\ ncalls' = ncalls + 1
    /\ portfolio' = on_new_day(portfolio)
    /\ day' = day + 1
    /\ call' = [op |-> "on_new_day"]
    /\ UNCHANGED <<risk_mgr, engine_vars>>

CallRebalance ==
    \E tw \in HarnessTargets :
        LET r == rebalance(portfolio, Today, tw, risk_mgr, fee_args) IN
        /\ pc = "harness"
        /\ ncalls < MaxCalls
        /\ ncalls' = ncalls + 1
        /\ portfolio' = r.p
        /\ call' = [op |-> "rebalance", target_weights |-> tw, ret |-> r.trades]
        /\ UNCHANGED <<risk_mgr, day, engine_vars>>

\* record_daily with the list the last rebalance returned, or with none
CallRecordDaily ==
    /\ pc = "harness"
    /\ ncalls < MaxCalls
    /\ ncalls' = ncalls + 1
    /\ \E trades \in {<<>>} \cup (IF call.op = "rebalance" THEN {call.ret} ELSE {}) :
        /\ portfolio' = record_daily(portfolio, Today, trades)
        /\ call' = [op |-> "record_daily", trades |-> trades]
    /\ UNCHANGED <<risk_mgr, day, engine_vars>>

\* total_value is a query: it assigns no attribute, and the harness does not
\* count it among its calls
CallTotalValue ==
    /\ pc = "harness"
    /\ call' = [op |-> "total_value", ret |-> total_value(portfolio)]
    /\ UNCHANGED <<portfolio, risk_mgr, day, ncalls, engine_vars>>

NextPortfolio ==
    \/ CallUpdatePrice
    \/ CallOnNewDay
    \/ CallRebalance
    \/ CallRecordDaily
    \/ CallTotalValue

SpecPortfolio == InitPortfolio /\ [][NextPortfolio]_vars

\* ===========================================================================
\* Scheduler harness: a caller registers callbacks and dispatches them
\* ===========================================================================
\* most registrations of one harness run
MaxTasks == 3

SchedulerFuncs == {"f", "g"}
\* '09:30', '10:00', 'ab:cd', 'after_close' and the malformed '9:30' and
\* '09.30'
SchedulerTimes ==
    {<<"0", "9", ":", "3", "0">>, <<"1", "0", ":", "0", "0">>,
     <<"a", "b", ":", "c", "d">>, AFTER_CLOSE,
     <<"9", ":", "3", "0">>, <<"0", "9", ".", "3", "0">>}
SchedulerTimestamps == {Timestamp(0, 9, 30), Timestamp(0, 10, 0), Timestamp(1, 10, 0)}

InitScheduler ==
    /\ scheduler = NewScheduler
    /\ portfolio = NewPortfolio(0)
    /\ risk_mgr = DefaultRiskManager
    /\ fee_args = FeeArgs(0, "rate", 0, 0)
    /\ call = NoCall
    /\ day = 0
    /\ ncalls = 0
    /\ trade_days = <<>>
    /\ is_minute_data = FALSE
    /\ i = 0
    /\ pc = "scheduler_harness"
    /\ target_weights = <<>>
    /\ trades_today = <<>>
    /\ current_value = 0
    /\ other_data = "none"
    /\ trace = <<>>
    /\ result = <<>>

scheduler_frame == <<portfolio, risk_mgr, day, trade_days, is_minute_data, fee_args,
                     ncalls, i, pc, target_weights, trades_today, current_value,
                     other_data, trace, result>>

CallRunDaily ==
    \E func \in SchedulerFuncs, time \in SchedulerTimes :
        LET r == run_daily(scheduler, func, time) IN
        /\ pc = "scheduler_harness"
        /\ Len(scheduler.daily_tasks) + Len(scheduler.after_close_tasks) < MaxTasks
        /\ scheduler' = r.sch
        /\ call' = [op |-> "run_daily", func |-> func, time |-> time, ok |-> r.ok]
        /\ UNCHANGED scheduler_frame

CallOnBar ==
    \E at \in SchedulerTimestamps, raising \in SUBSET SchedulerFuncs :
        LET r == scheduler_on_bar(scheduler, at, raising) IN
        /\ pc = "scheduler_harness"
        /\ call' = [op |-> "on_bar", dt |-> at, raising |-> raising,
                    calls |-> r.calls, ret |-> r.ret]
        /\ UNCHANGED <<scheduler, scheduler_frame>>

CallOnAfterClose ==
    \E raising \in SUBSET SchedulerFuncs :
        LET r == scheduler_on_after_close(scheduler, raising) IN
        /\ pc = "scheduler_harness"
        /\ call' = [op |-> "on_after_close", raising |-> raising,
                    calls |-> r.calls, ret |-> r.ret]
        /\ UNCHANGED <<scheduler, scheduler_frame>>

NextScheduler ==
    \/ CallRunDaily
    \/ CallOnBar
    \/ CallOnAfterClose

SpecScheduler == InitScheduler /\ [][NextScheduler]_vars

\* ===========================================================================
\* RiskManager harness: a caller makes RiskManager calls in any order
\* ===========================================================================
\* most check_portfolio calls of one harness run
MaxChecks == 3

\* the arguments a caller may hand to RiskManager(...); None is <<>>
RiskLimits == {<<-1, 10>>, <<0, 1>>, <<3, 10>>, <<1, 1>>, <<11, 10>>}
RiskDrawdowns == {<<0, 1>>, <<1, 5>>, <<1, 1>>, <<6, 5>>}
RiskStops == {<<>>, <<<<0, 1>>>>, <<<<1, 10>>>>, <<<<2, 1>>>>}

\* the managers a caller can construct
RiskManagers ==
    {NewRiskManager(mpp, mdd, sl) :
        mpp \in {x \in RiskLimits : InUnitRange(x)},
        mdd \in {x \in RiskDrawdowns : InUnitRange(x)},
        sl \in {x \in RiskStops : x = <<>> \/ InUnitRange(x[1])}}

\* no RiskManager object: the name is unbound until __init__ returns
NoRiskManager ==
    [max_position_pct |-> <<>>, max_drawdown |-> <<>>, stop_loss_pct |-> <<>>,
     peak_value |-> <<>>]

RiskValues == {-1 * YUAN, 0, 50 * YUAN, 80 * YUAN, 100 * YUAN}
RiskWeights == {<<-1, 2>>, <<0, 1>>, <<1, 5>>, <<3, 10>>, <<1, 2>>, <<1, 1>>}
RiskPrices == {0, 9 * YUAN, 10 * YUAN}

InitRisk ==
    /\ risk_mgr = NoRiskManager
    /\ portfolio = NewPortfolio(0)
    /\ scheduler = NewScheduler
    /\ fee_args = FeeArgs(0, "rate", 0, 0)
    /\ call = NoCall
    /\ day = 0
    /\ ncalls = 0
    /\ trade_days = <<>>
    /\ is_minute_data = FALSE
    /\ i = 0
    /\ pc = "risk_new"
    /\ target_weights = <<>>
    /\ trades_today = <<>>
    /\ current_value = 0
    /\ other_data = "none"
    /\ trace = <<>>
    /\ result = <<>>

risk_frame == <<portfolio, scheduler, day, trade_days, is_minute_data, fee_args,
                ncalls, i, pc, target_weights, trades_today, current_value,
                other_data, result>>

risk_rest == <<portfolio, scheduler, day, trade_days, is_minute_data, fee_args,
               ncalls, i, target_weights, trades_today, current_value,
               other_data, result>>

\* RiskManager(max_position_pct, max_drawdown, stop_loss_pct): __init__
\* returns, or raises ValueError and leaves no object
CallNewRiskManager ==
    \E mpp \in RiskLimits, mdd \in RiskDrawdowns, sl \in RiskStops :
        /\ pc = "risk_new"
        /\ IF RiskInitRaises(mpp, mdd, sl)
           THEN /\ pc' = "risk_raised"
                /\ UNCHANGED risk_mgr
           ELSE /\ pc' = "risk_harness"
                /\ risk_mgr' = NewRiskManager(mpp, mdd, sl)
        /\ call' = [op |-> "RiskManager", max_position_pct |-> mpp,
                    max_drawdown |-> mdd, stop_loss_pct |-> sl]
        /\ UNCHANGED <<trace, risk_rest>>

\* trace keeps the values passed to check_portfolio so far
CallCheckPortfolio ==
    \E value \in RiskValues :
        LET r == check_portfolio(risk_mgr, value) IN
        /\ pc = "risk_harness"
        /\ Len(trace) < MaxChecks
        /\ risk_mgr' = r.rm
        /\ call' = [op |-> "check_portfolio", value |-> value, ret |-> r.ret]
        /\ trace' = Append(trace, value)
        /\ UNCHANGED risk_frame

CallCapPosition ==
    \E weight \in RiskWeights :
        /\ pc = "risk_harness"
        /\ call' = [op |-> "cap_position", weight |-> weight,
                    ret |-> cap_position(risk_mgr, weight)]
        /\ UNCHANGED <<risk_mgr, trace, risk_frame>>

CallCheckStopLoss ==
    \E entry_price \in RiskPrices, current_price \in RiskPrices :
        /\ pc = "risk_harness"
        /\ call' = [op |-> "check_stop_loss", entry_price |-> entry_price,
                    current_price |-> current_price,
                    ret |-> check_stop_loss(risk_mgr, entry_price, current_price)]
        /\ UNCHANGED <<risk_mgr, trace, risk_frame>>

NextRisk ==
    \/ CallNewRiskManager
    \/ CallCheckPortfolio
    \/ CallCapPosition
    \/ CallCheckStopLoss

SpecRisk == InitRisk /\ [][NextRisk]_vars

\* ===========================================================================
\* Metrics harness: a caller hands an equity table to calc_drawdown
\* ===========================================================================
\* longest equity table drawn from CurveTotals
MaxCurve == 5

CurveTotals == {80, 90, 100, 110, 120, 130}

\* the equity table of one point a day with the given totals
CurveOf(totals) ==
    [k \in 1..Len(totals) |->
        [date |-> Timestamp(k, 0, 0), total |-> totals[k], cash |-> totals[k]]]

\* the equity curve of the worked example
ExampleTotals == <<100, 120, 90, 110, 80, 130>>

EquityCurves ==
    {CurveOf(totals) :
        totals \in {ExampleTotals} \cup UNION {[1..n -> CurveTotals] : n \in 0..MaxCurve}}

InitMetrics ==
    /\ \E curve \in EquityCurves :
          portfolio = [NewPortfolio(100) EXCEPT !.equity_curve = curve]
    /\ risk_mgr = DefaultRiskManager
    /\ scheduler = NewScheduler
    /\ fee_args = FeeArgs(0, "rate", 0, 0)
    /\ call = NoCall
    /\ day = 0
    /\ ncalls = 0
    /\ trade_days = <<>>
    /\ is_minute_data = FALSE
    /\ i = 0
    /\ pc = "metrics_harness"
    /\ target_weights = <<>>
    /\ trades_today = <<>>
    /\ current_value = 0
    /\ other_data = "none"
    /\ trace = <<>>
    /\ result = <<>>

CallCalcDrawdown ==
    /\ pc = "metrics_harness"
    /\ call' = [op |-> "calc_drawdown", ret |-> calc_drawdown(portfolio.equity_curve)]
    /\ UNCHANGED <<portfolio, risk_mgr, day, ncalls, engine_vars>>

NextMetrics == CallCalcDrawdown

SpecMetrics == InitMetrics /\ [][NextMetrics]_vars


\* ===========================================================================
\* run_backtest (engine/backtest.py)
\* ===========================================================================

\* the k-th intraday bar of a session day: 09:30, 10:00, 10:30, ...
Slot(date, k) == Timestamp(date, 9 + (k \div 2), 30 * (k % 2))
NextSlot(ts) == IF ts.minute = 0 THEN Timestamp(ts.date, ts.hour, 30)
                ELSE Timestamp(ts.date, ts.hour + 1, 0)

DailyCalendar(n) == [k \in 1..n |-> Timestamp(k, 0, 0)]

\* every intraday calendar of n bars: each bar after the first is the next
\* slot of the same day or the first slot of the next day
RECURSIVE IntradayCalendars(_)
IntradayCalendars(n) ==
    IF n = 1 THEN {<<Slot(1, 1)>>}
    ELSE LET prev == IntradayCalendars(n - 1) IN
         {Append(s, NextSlot(s[n - 1])) : s \in prev}
         \cup {Append(s, Slot(s[n - 1].date + 1, 1)) : s \in prev}

Calendars ==
    UNION {{DailyCalendar(n)} \cup IntradayCalendars(n) : n \in 1..MaxBars}

\* how many leading timestamps the mode detection samples
SampleSize == 10

\* minute data iff one of the first SampleSize timestamps is not at 00:00
DetectMinuteData(days) ==
    \E k \in 1..(IF Len(days) < SampleSize THEN Len(days) ELSE SampleSize) :
        days[k].hour # 0 \/ days[k].minute # 0

EngineCash == {1000000 * YUAN}
EngineFeeRates == {1}
\* risk_mgr=None: the engine constructs RiskManager()
EngineRiskManagers == {DefaultRiskManager}

\* what the strategy's constructor registers through run_daily
StrategySetups ==
    {<<[func |-> "market_open", time |-> <<"1", "0", ":", "0", "0">>],
       [func |-> "after_market_close", time |-> AFTER_CLOSE]>>}

RECURSIVE Register(_, _, _)
Register(sch, setup, k) ==
    IF k > Len(setup) THEN sch
    ELSE Register(run_daily(sch, setup[k].func, setup[k].time).sch, setup, k + 1)

\* a row of a DataFrame at dt: no row, a NaN close, or a close
NoBar == [kind |-> "none", close |-> 0]
NanBar == [kind |-> "nan", close |-> 0]
Close(yuan) == [kind |-> "close", close |-> yuan * YUAN]
\* the first instrument defines trade_days, so it has a row at every dt
FirstCode == "A"
FirstBars == {NanBar, Close(0), Close(30), Close(100)}
\* the DataFrame of the other instrument: no row at any replay timestamp, or
\* a row with close 100 at every one
OtherDatasets == {"none", "all"}
\* a DataFrame listed one session longer than the first instrument's: a row
\* with close 100 at every replay timestamp and at one later day
MisalignedDatasets == {"late"}
\* df.index of the other instrument, given the index of the first
OtherIndex(dataset, days) ==
    LET last == days[Len(days)]
        rows == {days[k] : k \in 1..Len(days)}
    IN  IF dataset = "all" THEN rows
        ELSE IF dataset = "late"
        THEN rows \cup {Timestamp(last.date + 1, last.hour, last.minute)}
        ELSE {}
\* df.loc[dt] of the other instrument at the replay timestamp dt
OtherBarAt(dataset, days, ts) ==
    IF ts \in OtherIndex(dataset, days) THEN Close(100) ELSE NoBar

StrategyOutputs ==
    {<<>>, <<W("A", 1, 2)>>, <<W("A", 0, 1)>>, <<W("A", 1, 10), W("B", 1, 2)>>}

\* the model's arithmetic is exact below this total (in yuan)
ValueCap == 2000000 * YUAN
InRange(p) ==
    LET y(book) == BookValue(book, [c \in DOMAIN p.prices |-> p.prices[c] \div YUAN],
                             DOMAIN book)
    IN  p.cash \div YUAN + y(p.positions_hold) + y(p.positions_today)
            < ValueCap \div YUAN

EngineStart(datasets) ==
    /\ \E c \in EngineCash : portfolio = NewPortfolio(c)
    /\ risk_mgr \in EngineRiskManagers
    /\ \E r \in EngineFeeRates : fee_args = FeeArgs(r, "rate", 0, 5 * YUAN)
    /\ \E setup \in StrategySetups : scheduler = Register(NewScheduler, setup, 1)
    /\ trade_days \in Calendars
    /\ is_minute_data = DetectMinuteData(trade_days)
    /\ call = NoCall
    /\ day = 0
    /\ ncalls = 0
    /\ i = 0
    /\ pc = "new_day"
    /\ target_weights = <<>>
    /\ trades_today = <<>>
    /\ current_value = 0
    /\ other_data \in datasets
    /\ trace = <<>>
    /\ result = <<>>

\* run_backtest called with a data mapping whose instruments share the index
\* of the first one, or have no row on it
InitEngine == EngineStart(OtherDatasets)

dt == trade_days[i + 1]

OtherBar(dataset) == OtherBarAt(dataset, trade_days, dt)

Ev(op) == [op |-> op, i |-> i]

\* a boundary test that sees the start of the run only
IsNewDayAtStart(k) == k = 0
\* the day-boundary test of the loop head (i is 0-based)
IsNewDay(k) == k = 0 \/ trade_days[k + 1].date # trade_days[k].date

\* lines 93-95: T+1 unfreeze on a day boundary
StepNewDay ==
    /\ pc = "new_day"
    /\ IF IsNewDay(i)
       THEN /\ portfolio' = on_new_day(portfolio)
            /\ trace' = Append(trace, Ev("on_new_day"))
       ELSE UNCHANGED <<portfolio, trace>>
    /\ pc' = "update_price"
    /\ UNCHANGED <<risk_mgr, scheduler, call, day, ncalls, trade_days,
                   is_minute_data, fee_args, i, target_weights, trades_today,
                   current_value, other_data, result>>

\* the price the loop hands to update_price for one row, 0 when it skips it
BarPrice(bar) == IF bar.kind = "close" /\ bar.close > 0 THEN bar.close ELSE 0

\* lines 109-110: the scheduler runs only on minute data
\* a loop that dispatches the scheduler in every mode
AfterUpdatePriceAlways == "scheduler"
AfterUpdatePrice == IF is_minute_data THEN "scheduler" ELSE "on_bar"

\* lines 97-107: one update_price per instrument with a valid row
StepUpdatePrice ==
    /\ pc = "update_price"
    /\ \E a \in FirstBars :
         LET b == OtherBar(other_data)
             p1 == update_price(portfolio, "A", BarPrice(a))
             p2 == update_price(p1, "B", BarPrice(b))
         IN  /\ InRange(p2)
             /\ portfolio' = p2
             /\ trace' = Append(trace,
                    [op |-> "update_price", i |-> i,
                     prices |-> [c \in Codes |-> BarPrice(IF c = FirstCode THEN a ELSE b)]])
    /\ pc' = AfterUpdatePrice
    /\ UNCHANGED <<risk_mgr, scheduler, call, day, ncalls, trade_days,
                   is_minute_data, fee_args, i, target_weights, trades_today,
                   current_value, other_data, result>>

Callbacks(calls) == [k \in 1..Len(calls) |-> [op |-> calls[k].func, i |-> i]]

\* lines 109-113: scheduler.on_bar in intraday mode; any of the strategy's
\* callbacks may raise
StepScheduler ==
    /\ pc = "scheduler"
    /\ \E raising \in SUBSET {scheduler.daily_tasks[k].func :
                                 k \in 1..Len(scheduler.daily_tasks)} :
        LET r == scheduler_on_bar(scheduler, dt, raising) IN
        /\ trace' = Append(trace, Ev("scheduler.on_bar")) \o Callbacks(r.calls)
        /\ pc' = IF r.ret = "raise" THEN "raised" ELSE "on_bar"
    /\ UNCHANGED <<portfolio, risk_mgr, scheduler, call, day, ncalls,
                   trade_days, is_minute_data, fee_args, i, target_weights,
                   trades_today, current_value, other_data, result>>

\* line 116: strategy.on_bar returns target weights
StepOnBar ==
    /\ pc = "on_bar"
    /\ target_weights' \in StrategyOutputs
    /\ trace' = Append(trace, [op |-> "strategy.on_bar", i |-> i,
                                raised |-> FALSE, ret |-> target_weights'])
    /\ pc' = "rebalance"
    /\ UNCHANGED <<portfolio, risk_mgr, scheduler, call, day, ncalls,
                   trade_days, is_minute_data, fee_args, i, trades_today,
                   current_value, other_data, result>>

\* line 116, lines 156-158: strategy.on_bar raises; the loop logs and re-raises
StepOnBarRaises ==
    /\ pc = "on_bar"
    /\ trace' = Append(trace, [op |-> "strategy.on_bar", i |-> i,
                                raised |-> TRUE, ret |-> <<>>])
    /\ pc' = "raised"
    /\ UNCHANGED <<portfolio, risk_mgr, scheduler, call, day, ncalls,
                   trade_days, is_minute_data, fee_args, i, target_weights,
                   trades_today, current_value, other_data, result>>

\* a loop that goes from the rebalance straight to the daily close
AfterRebalanceUnchecked == "record"
\* lines 126-128: the risk check follows the rebalance
AfterRebalance == "check"

\* lines 119-124; call records the rebalance call as the harness does
StepRebalance ==
    /\ pc = "rebalance"
    /\ LET r == rebalance(portfolio, dt, target_weights, risk_mgr, fee_args) IN
         /\ portfolio' = r.p
         /\ trades_today' = r.trades
         /\ call' = [op |-> "rebalance", target_weights |-> target_weights,
                     ret |-> r.trades]
    /\ trace' = Append(trace, Ev("rebalance"))
    /\ pc' = AfterRebalance
    /\ UNCHANGED <<risk_mgr, scheduler, day, ncalls, trade_days,
                   is_minute_data, fee_args, i, target_weights, current_value,
                   other_data, result>>

\* a loop in which a breach raises instead of breaking out
AfterCheckRaises(ret) == IF ret = "true" THEN "record" ELSE "raised"
\* a loop that ignores what check_portfolio returned
AfterCheckIgnored(ret) == "record"
\* lines 128-130: False breaks out of the loop, an exception leaves it
AfterCheck(ret) ==
    IF ret = "true" THEN "record"
    ELSE IF ret = "false" THEN "after_loop" ELSE "raised"

\* lines 126-130: the risk check
StepCheck ==
    /\ pc = "check"
    /\ LET r == check_portfolio(risk_mgr, total_value(portfolio)) IN
         /\ risk_mgr' = r.rm
         /\ pc' = AfterCheck(r.ret)
         /\ trace' = Append(trace, [op |-> "check_portfolio", i |-> i,
                                    value |-> total_value(portfolio),
                                    ret |-> r.ret])
    /\ current_value' = total_value(portfolio)
    /\ UNCHANGED <<portfolio, scheduler, call, day, ncalls, trade_days,
                   is_minute_data, fee_args, i, target_weights, trades_today,
                   other_data, result>>

RecordEv(date) == [op |-> "record_daily", i |-> i, date |-> date]

\* lines 132-149: the daily-close recording of one loop pass
\* a daily close that, in intraday mode, records at day boundaries only
DailyCloseAtBoundaries(p) ==
    IF ~is_minute_data
    THEN [p |-> record_daily(p, dt, trades_today), evs |-> <<RecordEv(dt)>>]
    ELSE LET boundary == i # 0 /\ trade_days[i + 1].date # trade_days[i].date
         IN  [p |-> IF boundary THEN record_daily(p, trade_days[i], <<>>) ELSE p,
              evs |-> IF boundary THEN <<RecordEv(trade_days[i])>> ELSE <<>>]

DailyClose(p) ==
    IF ~is_minute_data
    THEN [p |-> record_daily(p, dt, trades_today), evs |-> <<RecordEv(dt)>>]
    ELSE LET boundary == i # 0 /\ trade_days[i + 1].date # trade_days[i].date
             last == i = Len(trade_days) - 1
             p1 == IF boundary THEN record_daily(p, trade_days[i], <<>>) ELSE p
             p2 == IF last THEN record_daily(p1, dt, trades_today) ELSE p1
         IN  [p |-> p2,
              evs |-> (IF boundary THEN <<RecordEv(trade_days[i])>> ELSE <<>>)
                      \o (IF last THEN <<RecordEv(dt)>> ELSE <<>>)]

\* a loop that stops one timestamp short of the end of trade_days
IsBeforeLastBar(k) == k >= Len(trade_days) - 2
\* line 91: the for loop is at the last element of trade_days
IsLastBar(k) == k = Len(trade_days) - 1

\* lines 132-154 and the loop's advance
StepRecord ==
    /\ pc = "record"
    /\ LET r == DailyClose(portfolio) IN
         /\ portfolio' = r.p
         /\ trace' = trace \o r.evs
    /\ IF IsLastBar(i)
       THEN pc' = "after_loop" /\ i' = i
       ELSE pc' = "new_day" /\ i' = i + 1
    /\ UNCHANGED <<risk_mgr, scheduler, call, day, ncalls, trade_days,
                   is_minute_data, fee_args, target_weights, trades_today,
                   current_value, other_data, result>>

\* date_series.head(10)
TradeSampleSize == 10
\* lines 172-181: the trade dates carry a time of day
HasTimeInfo(trades, minute_data) ==
    \/ minute_data
    \/ \E k \in 1..Len(trades) :
          k <= TradeSampleSize /\ (trades[k].date.hour # 0 \/ trades[k].date.minute # 0)

\* strftime('%Y-%m-%d %H:%M:%S') or strftime('%Y-%m-%d'): the day, and the
\* characters of the time of day when it is printed
FormatDate(date, with_time) ==
    [ymd |-> date.date,
     hms |-> IF with_time THEN FormatHHMM(date) \o <<":", "0", "0">> ELSE <<>>]

\* lines 161-189: the trade table, its date column formatted
TradesTable(trades, minute_data) ==
    [k \in 1..Len(trades) |->
        [trades[k] EXCEPT !.date = FormatDate(@, HasTimeInfo(trades, minute_data))]]

\* lines 200-215: the returned dict
ResultOf(p, minute_data) ==
    [final_value |-> total_value(p),
     total_return |-> <<total_value(p) - p.init_cash, p.init_cash>>,
     equity |-> p.equity_curve,
     daily_pnl |-> p.daily_pnl,
     drawdown |-> calc_drawdown(p.equity_curve),
     trades |-> TradesTable(p.daily_trades, minute_data)]

\* lines 160-215: the tables are built and the result dict is returned
StepReturn ==
    /\ pc = "after_loop"
    /\ result' = <<ResultOf(portfolio, is_minute_data)>>
    /\ pc' = "done"
    /\ UNCHANGED <<portfolio, risk_mgr, scheduler, call, day, ncalls,
                   trade_days, is_minute_data, fee_args, i, target_weights,
                   trades_today, current_value, other_data, trace>>

NextEngine ==
    \/ StepNewDay
    \/ StepUpdatePrice
    \/ StepScheduler
    \/ StepOnBar
    \/ StepOnBarRaises
    \/ StepRebalance
    \/ StepCheck
    \/ StepRecord
    \/ StepReturn

\* the program is run through run_backtest, or a caller drives a Portfolio
Init == InitEngine \/ InitPortfolio

Next == NextEngine \/ NextPortfolio

Spec == Init /\ [][Next]_vars

\* the positions of run_backtest: the statements of the loop body, the
\* aggregation after the loop, the return and the propagation of an exception
Positions ==
    {"new_day", "update_price", "scheduler", "on_bar", "rebalance", "check",
     "record", "after_loop", "done", "raised"}

\* the interpreter executes the statement at the current position: every
\* statement of run_backtest leaves its position (NextEngine has a step in
\* every state whose position is neither "done" nor "raised")
Advance == pc \notin {"done", "raised"} /\ pc' \in Positions /\ pc' # pc

\* run_backtest called with a data mapping whose instruments may have rows
\* the first one has not
InitCalendar == EngineStart(OtherDatasets \cup MisalignedDatasets)

SpecCalendar == InitCalendar /\ [][NextEngine]_vars

\* run_backtest called with bars for every code of the universe
InitRun == InitEngine /\ other_data = "all"

\* run_backtest alone, run to its end: the interpreter goes on executing the
\* loop body as long as a statement is left to execute
SpecRun == InitRun /\ [][NextEngine]_vars /\ WF_pc(Advance)

\* ===========================================================================
\* Properties
\* ===========================================================================

HoldOf(p, c) == Get(p.positions_hold, c, 0)
PendingOf(p, c) == Get(p.positions_today, c, 0)

\* shares of the records of one side and one code in a trade list
RECURSIVE SharesOf(_, _, _, _)
SharesOf(trades, side, code, k) ==
    IF k > Len(trades) THEN 0
    ELSE (IF trades[k].side = side /\ trades[k].code = code
          THEN trades[k].shares ELSE 0)
         + SharesOf(trades, side, code, k + 1)

\* the step is a Portfolio.rebalance call (of a caller or of the engine loop)
RebalanceStep ==
    \/ pc = "harness" /\ ncalls' = ncalls + 1 /\ call'.op = "rebalance"
    \/ pc = "rebalance" /\ pc' # "rebalance"

\* the step calls Portfolio.on_new_day
OnNewDayStep ==
    \/ pc = "harness" /\ ncalls' = ncalls + 1 /\ call'.op = "on_new_day"
    \/ Len(trace') > Len(trace) /\ trace'[Len(trace) + 1].op = "on_new_day"

\* the item asks to reduce an instrument all of whose shares are pending
AsksToReduceAllPending(p, rm, item) ==
    /\ HoldOf(p, item.code) = 0
    /\ PendingOf(p, item.code) > 0
    /\ Get(p.prices, item.code, 0) > 0
    /\ TargetShares(total_value(p), cap_position(rm, item.weight),
                    p.prices[item.code]) < PendingOf(p, item.code)

C1Step ==
    /\ RebalanceStep =>
          LET ret == call'.ret
              tw == call'.target_weights
          IN  /\ \A k \in 1..Len(ret) :
                    ret[k].side = "SELL" =>
                        ret[k].shares <= HoldOf(portfolio, ret[k].code)
              /\ \A c \in Codes :
                    /\ HoldOf(portfolio', c)
                         = HoldOf(portfolio, c) - SharesOf(ret, "SELL", c, 1)
                    /\ PendingOf(portfolio', c)
                         = PendingOf(portfolio, c) + SharesOf(ret, "BUY", c, 1)
              /\ \A k \in 1..Len(tw) :
                    AsksToReduceAllPending(portfolio, risk_mgr, tw[k]) =>
                        /\ \A j \in 1..Len(ret) : ret[j].code # tw[k].code
                        /\ Len(tw) = 1 => ret = <<>> /\ portfolio' = portfolio
    /\ ~RebalanceStep /\ ~OnNewDayStep =>
          /\ portfolio'.positions_hold = portfolio.positions_hold
          /\ portfolio'.positions_today = portfolio.positions_today

\* C1 (T+1): in every step of a caller's call sequence and of the engine
\* loop, each SELL record of a rebalance sells at most the settled balance
\* its instrument had before the call, the settled book changes by exactly
\* the SELL records and the pending book by exactly the BUY records (bought
\* shares go to the pending book only), a request to reduce an instrument
\* whose shares are all pending yields no record for it (and, alone in its
\* call, leaves the whole portfolio unchanged), and no step other than
\* on_new_day and rebalance changes either book.
C1_TPlusOne == [][C1Step]_vars

\* a lone request to reduce an all-pending instrument has just returned
C1_Witness ==
    /\ pc \in {"harness", "check"}
    /\ call.op = "rebalance"
    /\ Len(call.target_weights) = 1
    /\ call.ret = <<>>
    /\ AsksToReduceAllPending(portfolio, risk_mgr, call.target_weights[1])

\* C2 (cash never negative): in every reachable state, of a caller's call
\* sequence in either fee mode and of the engine loop, Portfolio.cash >= 0.
C2_CashNonNegative == portfolio.cash >= 0

\* the cash flow of the records of a trade list whose code is in codes
RECURSIVE FlowOfCodes(_, _, _)
FlowOfCodes(trades, codes, k) ==
    IF k > Len(trades) THEN 0
    ELSE (IF trades[k].code \notin codes THEN 0
          ELSE IF trades[k].side = "BUY"
               THEN -(trades[k].amount + trades[k].fee)
               ELSE trades[k].amount - trades[k].fee)
         + FlowOfCodes(trades, codes, k + 1)

RecordsOf(trades, code) == {j \in 1..Len(trades) : trades[j].code = code}

\* the diff rebalance computes for item k of tw from the state before the call
DiffBefore(p, rm, tw, k) ==
    TargetShares(total_value(p), cap_position(rm, tw[k].weight),
                 p.prices[tw[k].code])
    - (HoldOf(p, tw[k].code) + PendingOf(p, tw[k].code))

C3Step ==
    RebalanceStep =>
      LET ret == call'.ret
          tw == call'.target_weights
      IN  /\ portfolio'.cash = portfolio.cash + FlowOfCodes(ret, Codes, 1)
          /\ portfolio'.daily_trades = portfolio.daily_trades \o ret
          /\ \A k \in 1..Len(tw) :
                LET c == tw[k].code
                    price == Get(portfolio.prices, c, 0)
                    diff == DiffBefore(portfolio, risk_mgr, tw, k)
                    cost == diff * price
                    fee == FeeOf(cost, fee_args)
                    \* cash when the loop reaches item k
                    cash == portfolio.cash
                            + FlowOfCodes(ret, {tw[m].code : m \in 1..(k - 1)}, 1)
                IN  (price > 0 /\ diff > 0) =>
                      IF cash < cost + fee
                      THEN /\ RecordsOf(ret, c) = {}
                           /\ PendingOf(portfolio', c) = PendingOf(portfolio, c)
                           /\ HoldOf(portfolio', c) = HoldOf(portfolio, c)
                      ELSE /\ Cardinality(RecordsOf(ret, c)) = 1
                           /\ \A j \in RecordsOf(ret, c) :
                                 /\ ret[j].side = "BUY"
                                 /\ ret[j].shares = diff
                                 /\ ret[j].amount = cost
                                 /\ ret[j].fee = fee
                           /\ PendingOf(portfolio', c)
                                = PendingOf(portfolio, c) + diff
                           /\ HoldOf(portfolio', c) = HoldOf(portfolio, c)

\* C3 (all-or-nothing buys): in every rebalance call, for each item whose
\* diff is positive, if the cash left when the loop reaches the item is less
\* than diff*price + fee there is no record for the instrument and its
\* books are as before, otherwise there is exactly one BUY record of exactly
\* diff shares, amount diff*price and that fee, and the pending book grows
\* by diff; the items after a rejected one are processed by the same rule;
\* cash changes by exactly the flows of the returned records, which are
\* appended to the trade log.
C3_AllOrNothing == [][C3Step]_vars

\* a call of two buy orders has just returned: the first was rejected for
\* lack of cash, the second was executed
C3_Witness ==
    /\ pc \in {"harness", "check"}
    /\ call.op = "rebalance"
    /\ Len(call.target_weights) = 2
    /\ Len(call.ret) = 1
    /\ call.ret[1].side = "BUY"
    /\ call.ret[1].code = call.target_weights[2].code
    /\ LET c == call.target_weights[1].code
           price == Get(portfolio.prices, c, 0)
           total == total_value(portfolio) + call.ret[1].fee
           diff == TargetShares(total,
                       cap_position(risk_mgr, call.target_weights[1].weight),
                       price) - (HoldOf(portfolio, c) + PendingOf(portfolio, c))
       IN  /\ price > 0
           /\ diff > 0
           /\ portfolio.cash + call.ret[1].amount + call.ret[1].fee
                < diff * price + FeeOf(diff * price, fee_args)

\* the positions of the check_portfolio events of a trace
Checks(tr) == {n \in 1..Len(tr) : tr[n].op = "check_portfolio"}

SetMax(S) == CHOOSE x \in S : \A y \in S : y <= x

\* the highest value handed to check_portfolio up to position n
PeakUpTo(tr, n) == SetMax({tr[m].value : m \in {x \in Checks(tr) : x <= n}})

\* the risk breaker has stopped the loop
Halted ==
    /\ trace # <<>>
    /\ trace[Len(trace)].op = "check_portfolio"
    /\ trace[Len(trace)].ret = "false"

\* the step appends events to the trace
Appends == Len(trace') > Len(trace)

\* the check_portfolio call this step makes returns what the drawdown demands
CheckIsExact ==
    LET n == Len(trace')
        e == trace'[n]
    IN  e.op = "check_portfolio" =>
          (e.ret = "false" <=>
              \/ e.value < 0
              \/ DrawdownBreached(PeakUpTo(trace', n), e.value,
                                  risk_mgr.max_drawdown))

C4Step ==
    /\ Appends => CheckIsExact
    /\ Halted =>
          /\ UNCHANGED <<portfolio, risk_mgr, trace, i, trades_today>>
          /\ pc' \in {"after_loop", "done"}

\* C4 (risk halt): in the engine loop each check_portfolio call returns
\* false exactly when its value, measured against the highest value checked
\* so far, gives drawdown >= max_drawdown (so the first such bar and no
\* earlier one); a false check is the last call the loop ever makes: after
\* it no price update, on_new_day, scheduler dispatch, strategy.on_bar,
\* rebalance or record_daily follows, and portfolio, risk manager and loop
\* index stay as they are.
C4_RiskHalt == [][C4Step]_vars

\* a run has returned after the breaker stopped it before the last bar, the
\* bar before having passed the check
C4_Witness ==
    /\ pc = "done"
    /\ Halted
    /\ i < Len(trade_days) - 1
    /\ \E n \in Checks(trace) : trace[n].ret = "true"
    /\ trace[Len(trace)].value < PeakUpTo(trace, Len(trace))

\* the three-bar scenario, as far as the run has got: daily bars on three
\* consecutive days, only "A" has data, its close is 100 at every bar, the
\* strategy answers 0.5, 0, 0, and the engine's defaults do the rest
ThreeBarScenario ==
    /\ pc # "harness"
    /\ trade_days = DailyCalendar(3)
    /\ other_data = "none"
    /\ portfolio.init_cash = 1000000 * YUAN
    /\ fee_args.fee_rate = 1 /\ fee_args.fee_mode = "rate"
    /\ [risk_mgr EXCEPT !.peak_value = <<>>] = DefaultRiskManager
    /\ \A n \in 1..Len(trace) :
          /\ trace[n].op = "update_price" =>
                trace[n].prices = [c \in Codes |-> IF c = "A" THEN 100 * YUAN ELSE 0]
          /\ trace[n].op = "strategy.on_bar" =>
                /\ ~trace[n].raised
                /\ trace[n].ret = IF trace[n].i = 0 THEN <<W("A", 1, 2)>>
                                  ELSE <<W("A", 0, 1)>>

\* the loop has just rebalanced at index k
Rebalanced(k) == i = k /\ pc = "check"

Trade(date, side, shares) ==
    TradeRecord(date, "A", side, 100 * YUAN, shares, shares * 100 * YUAN,
                (shares * 100 * YUAN) \div PER_MILLE)

\* the scenario's outcome with bar 1 buying `shares` shares
ScenarioOutcome(shares) ==
    LET spent == shares * 100 * YUAN
        fee == spent \div PER_MILLE
        cash1 == 1000000 * YUAN - spent - fee
        cash2 == cash1 + spent - fee
    IN  /\ Rebalanced(0) =>
              /\ trades_today = <<Trade(trade_days[1], "BUY", shares)>>
              /\ portfolio.positions_today = [c \in {"A"} |-> shares]
              /\ portfolio.positions_hold = EmptyDict
              /\ portfolio.cash = cash1
        /\ (i = 1 /\ pc = "update_price") =>
              /\ portfolio.positions_hold = [c \in {"A"} |-> shares]
              /\ portfolio.positions_today = EmptyDict
        /\ Rebalanced(1) =>
              /\ trades_today = <<Trade(trade_days[2], "SELL", shares)>>
              /\ portfolio.positions_hold = EmptyDict
              /\ portfolio.positions_today = EmptyDict
              /\ portfolio.cash = cash2
        /\ Rebalanced(2) =>
              /\ trades_today = <<>>
              /\ portfolio.cash = cash2
              /\ Len(portfolio.daily_trades) = 2
        /\ pc = "done" =>
              /\ i = 2
              /\ result[1].final_value = cash2

\* C5 as stated (three-bar scenario): bar 1 buys 5000 shares (cost 500000,
\* fee 500, cash 499500), they settle before bar 2, bar 2 sells all 5000
\* (cash 999000), bar 3 trades nothing, final_value = 999000.
C5_Original == ThreeBarScenario => ScenarioOutcome(5000)

\* C5 (three-bar scenario, amended): the engine's own RiskManager() caps the
\* weight 0.5 at max_position_pct = 0.3, so bar 1 buys 3000 shares into the
\* pending book (cost 300000, fee 300, cash 699700), they settle at the day
\* boundary before bar 2, bar 2 sells all 3000 (proceeds 300000, fee 300,
\* cash 999400), bar 3 trades nothing, final_value = 999400.
C5_ThreeBarScenario == ThreeBarScenario => ScenarioOutcome(3000)

\* the scenario has run to its end
C5_Witness ==
    /\ ThreeBarScenario
    /\ pc = "done"
    /\ Cardinality({n \in 1..Len(trace) : trace[n].op = "strategy.on_bar"}) = 3
    /\ Len(portfolio.equity_curve) = 3

\* the cash flow of the records of a trade list executed on one session day
RECURSIVE FlowOfDay(_, _, _)
FlowOfDay(trades, date, k) ==
    IF k > Len(trades) THEN 0
    ELSE (IF trades[k].date.date # date THEN 0
          ELSE IF trades[k].side = "BUY"
               THEN -(trades[k].price * trades[k].shares + trades[k].fee)
               ELSE trades[k].price * trades[k].shares - trades[k].fee)
         + FlowOfDay(trades, date, k + 1)

\* C6 (daily P&L): every P&L point of an engine run, daily or intraday, has
\* pnl = (total at this record - total at the previous record, or init_cash
\* for the first) - (net cash flow of all trades executed on bars of the
\* point's session day).
C6_PnlOfAllDayTrades ==
    pc # "harness" =>
      \A n \in 1..Len(portfolio.daily_pnl) :
          LET pt == portfolio.daily_pnl[n]
              prev == IF n = 1 THEN portfolio.init_cash
                      ELSE portfolio.daily_pnl[n - 1].total
          IN  pt.pnl = pt.total - prev
                       - FlowOfDay(portfolio.daily_trades, pt.date.date, 1)

\* index k (0-based) starts a session day of the calendar
StartsDay(k) == k = 0 \/ trade_days[k + 1].date # trade_days[k].date

\* the positions of the events of one kind in the trace
EventsOf(op) == {n \in 1..Len(trace) : trace[n].op = op}

C7Step ==
    /\ \A n \in (Len(trace) + 1)..Len(trace') :
          IF trace'[n].op = "on_new_day"
          THEN /\ StartsDay(trace'[n].i)
               /\ \A m \in 1..(n - 1) : trace'[m].i # trace'[n].i
          ELSE StartsDay(trace'[n].i) =>
                 \E m \in 1..(n - 1) :
                     /\ trace'[m].op = "on_new_day"
                     /\ trace'[m].i = trace'[n].i
    /\ (StartsDay(i) /\ pc \in {"update_price", "scheduler", "on_bar", "rebalance"})
          => portfolio.positions_today = EmptyDict

\* C7 (on_new_day once per session day): in the engine loop an on_new_day
\* call happens only at index 0 or at an index whose date differs from the
\* previous timestamp's, it is the first call of its index (so it happens
\* at most once per index), and every other call of such an index (price
\* update, scheduler dispatch, strategy.on_bar, rebalance, ...) comes after
\* it; so at the first bar of a day the pending book is empty when prices,
\* strategy and rebalance run: what was bought the day before is settled
\* and sellable.
C7_NewDayOncePerDay == [][C7Step]_vars

\* the first bar of a later day has just sold shares bought the day before
C7_Witness ==
    /\ pc = "check"
    /\ i > 0
    /\ StartsDay(i)
    /\ \E k \in 1..Len(trades_today) : trades_today[k].side = "SELL"
    /\ \E k \in 1..Len(portfolio.daily_trades) :
          /\ portfolio.daily_trades[k].side = "BUY"
          /\ portfolio.daily_trades[k].date.date = trade_days[i].date

\* the session days of the bars the loop has entered
ProcessedDays == {trade_days[k + 1].date : k \in 0..i}

DatesOf(log) == [n \in 1..Len(log) |-> log[n].date.date]
Increasing(seq) == \A n \in 1..(Len(seq) - 1) : seq[n] < seq[n + 1]
Range(seq) == {seq[n] : n \in 1..Len(seq)}

\* C8 (one daily record per session day): when an engine run has returned,
\* in daily or intraday mode, after normal completion or a risk halt, the
\* record_daily calls, the equity curve and the P&L log each hold exactly
\* one point per session day of which a bar was processed, in chronological
\* order; and no record of a day is ever followed by a rebalance of a bar of
\* that day.
C8_OneRecordPerDay ==
    pc # "harness" =>
      /\ \A n \in EventsOf("record_daily"), m \in EventsOf("rebalance") :
            trade_days[trace[m].i + 1].date = trace[n].date.date => m < n
      /\ pc = "done" =>
            /\ Increasing(DatesOf(portfolio.equity_curve))
            /\ Range(DatesOf(portfolio.equity_curve)) = ProcessedDays
            /\ DatesOf(portfolio.daily_pnl) = DatesOf(portfolio.equity_curve)
            /\ Cardinality(EventsOf("record_daily")) = Cardinality(ProcessedDays)

\* the callbacks the strategy registered with the scheduler
TimedCallbacks == {scheduler.daily_tasks[k].func : k \in 1..Len(scheduler.daily_tasks)}
AfterCloseCallbacks ==
    {scheduler.after_close_tasks[k] : k \in 1..Len(scheduler.after_close_tasks)}

\* call b may directly follow call a within one timestamp
FollowsInBar(a, b) ==
    \/ a.op = "on_new_day" /\ b.op = "update_price"
    \/ /\ a.op = "update_price"
       /\ b.op = IF is_minute_data THEN "scheduler.on_bar" ELSE "strategy.on_bar"
    \/ /\ a.op = "scheduler.on_bar" \/ a.op \in TimedCallbacks
       /\ b.op = "strategy.on_bar" \/ b.op \in TimedCallbacks
    \/ a.op = "strategy.on_bar" /\ ~a.raised /\ b.op = "rebalance"
    \/ a.op = "rebalance" /\ b.op = "check_portfolio"
    \/ a.op = "check_portfolio" /\ a.ret = "true" /\ b.op = "record_daily"
    \/ a.op = "record_daily" /\ b.op = "record_daily"

\* event a ends its timestamp and event b opens the next one
FollowsAcrossBars(a, b) ==
    /\ b.i = a.i + 1
    /\ \/ a.op = "check_portfolio" /\ a.ret = "true"
       \/ a.op = "record_daily"
    /\ b.op = IF StartsDay(b.i) THEN "on_new_day" ELSE "update_price"

C9Step ==
    \A n \in (Len(trace) + 1)..Len(trace') :
        /\ IF n = 1
           THEN trace'[n].i = 0 /\ trace'[n].op = "on_new_day"
           ELSE \/ /\ trace'[n].i = trace'[n - 1].i
                   /\ FollowsInBar(trace'[n - 1], trace'[n])
                \/ FollowsAcrossBars(trace'[n - 1], trace'[n])
        /\ trace'[n].op = "scheduler.on_bar" => is_minute_data
        /\ trace'[n].op = "check_portfolio" =>
              /\ trace'[n].value = total_value(portfolio)
              /\ portfolio' = portfolio

\* C9 (step order): the calls of the engine loop come in the fixed order
\* (on a day boundary) on_new_day, update_price, (intraday mode only)
\* scheduler dispatch with its callbacks, strategy.on_bar, rebalance,
\* check_portfolio on the post-rebalance total value, daily-close
\* recording; the first call of a timestamp directly follows the last call
\* (risk check or daily record) of the timestamp before it.
C9_StepOrder == [][C9Step]_vars

\* an intraday run of three bars over two days has returned, its scheduler
\* having fired a timed callback
C9_Witness ==
    /\ pc = "done"
    /\ is_minute_data
    /\ i = 2
    /\ Cardinality(ProcessedDays) = 2
    /\ ~Halted
    /\ \E n \in 1..Len(trace) : trace[n].op \in TimedCallbacks
    /\ Len(portfolio.daily_trades) > 0

\* the run is an intraday run that has returned after normal completion
IntradayRunCompleted ==
    /\ pc = "done"
    /\ is_minute_data
    /\ ~Halted

\* C10 (after-close callbacks): when an intraday run has completed, every
\* callback registered with the trigger 'after_close' has been invoked
\* exactly once per session day.
C10_AfterCloseOncePerDay ==
    IntradayRunCompleted =>
      \A f \in AfterCloseCallbacks :
          Cardinality(EventsOf(f)) = Cardinality(ProcessedDays)

\* ---------------------------------------------------------------------------
\* the k-th smallest member of a set of indices
NthOf(idx, k) == CHOOSE j \in idx : Cardinality({m \in idx : m < j}) = k - 1

\* calls is exactly the calls of funcs[j] for j in idx, one for each, in
\* increasing order of j, each marked with whether the callback raised
CallsInOrder(calls, funcs, idx, raising) ==
    /\ Len(calls) = Cardinality(idx)
    /\ \A k \in 1..Len(calls) :
          /\ calls[k].func = funcs[NthOf(idx, k)]
          /\ calls[k].raised = (calls[k].func \in raising)

\* C11: Scheduler.on_bar calls exactly the time-of-day callbacks whose
\* registered 'HH:MM' equals the timestamp's formatted hour:minute, each once
\* and in registration order; a callback that raises stops neither the later
\* matching callbacks nor the caller, for on_bar returns normally;
\* on_after_close does the same over the whole after-close list.
C11_DispatchIsolated ==
    /\ call.op = "on_bar" =>
          /\ call.ret = "return"
          /\ CallsInOrder(call.calls,
                          [k \in 1..Len(scheduler.daily_tasks) |->
                              scheduler.daily_tasks[k].func],
                          {k \in 1..Len(scheduler.daily_tasks) :
                              scheduler.daily_tasks[k].time = FormatHHMM(call.dt)},
                          call.raising)
    /\ call.op = "on_after_close" =>
          /\ call.ret = "return"
          /\ CallsInOrder(call.calls, scheduler.after_close_tasks,
                          1..Len(scheduler.after_close_tasks), call.raising)

\* on_bar met a raising callback first, a later matching one was still
\* called, and an entry registered for another time was passed over
C11_Witness ==
    /\ call.op = "on_bar"
    /\ Len(scheduler.daily_tasks) = 3
    /\ Len(call.calls) = 2
    /\ call.calls[1].raised
    /\ ~call.calls[2].raised


\* ---------------------------------------------------------------------------
\* the calls of the trace that run strategy code
StrategyCallbacks == {"strategy.on_bar"} \cup TimedCallbacks \cup AfterCloseCallbacks

\* C12: an exception raised inside a strategy callback during replay, in
\* strategy.on_bar or in a callback the scheduler dispatches, does not leave
\* run_backtest: the run never ends raised on a call of strategy code.
C12_CallbackIsolated ==
    pc = "raised" => trace[Len(trace)].op \notin StrategyCallbacks

\* ---------------------------------------------------------------------------
\* the drawdown (peak - value) / peak is at least the ratio limit
DrawdownAtLeast(peak, value, limit) == (peak - value) * limit[2] >= limit[1] * peak

\* C13: check_portfolio(v) returns a boolean for every v, negative, zero or
\* positive, whatever the manager's state: with peak = max(peak, v) it
\* returns false iff v < 0 or (peak - v) / peak >= max_drawdown, and true
\* otherwise.
C13_CheckIsTotal ==
    call.op = "check_portfolio" =>
        /\ call.ret \in {"true", "false"}
        /\ call.ret = "false" <=>
              \/ call.value < 0
              \/ DrawdownAtLeast(risk_mgr.peak_value[1], call.value,
                                 risk_mgr.max_drawdown)

\* ---------------------------------------------------------------------------
\* a call made on a constructed manager
C14Step ==
    pc = "risk_harness" =>
        /\ risk_mgr.peak_value # <<>> =>
              /\ risk_mgr'.peak_value # <<>>
              /\ risk_mgr'.peak_value[1] >= risk_mgr.peak_value[1]
        /\ call'.op # "check_portfolio" => risk_mgr' = risk_mgr
        \* passed: the non-negative values passed to check_portfolio so far
        /\ risk_mgr'.peak_value =
              (LET passed == {trace'[k] : k \in {n \in 1..Len(trace') : trace'[n] >= 0}}
               IN  IF passed = {} THEN <<>> ELSE <<SetMax(passed)>>)

\* C14: the running peak never decreases over any sequence of
\* check_portfolio, cap_position and check_stop_loss calls; after any
\* sequence of check_portfolio calls it is the largest of the non-negative
\* values passed so far; and only check_portfolio changes it.
C14_PeakMonotone == [][C14Step]_vars

\* a peak was set, then a negative and a lower value were checked and a
\* cap_position call followed: the peak is still the earlier, larger value
C14_Witness ==
    /\ pc = "risk_harness"
    /\ Len(trace) = 3
    /\ trace[1] > trace[3]
    /\ trace[2] < 0
    /\ trace[3] > 0
    /\ call.op = "cap_position"
    /\ risk_mgr.peak_value = <<trace[1]>>

\* ---------------------------------------------------------------------------
\* cash plus, for every instrument, the shares of both books at the cached
\* price, nothing for an instrument without a cached price
Valuation(p) ==
    LET Worth(c) == (HoldOf(p, c) + PendingOf(p, c)) * Get(p.prices, c, 0)
    IN  p.cash + Worth("A") + Worth("B")

\* the step is a Portfolio.update_price call that accepts the price
AcceptsPrice(c) ==
    /\ pc = "harness"
    /\ call'.op = "update_price"
    /\ ncalls' = ncalls + 1
    /\ call'.code = c
    /\ call'.price > 0

C15Step ==
    /\ \A c \in Codes :
          Get(portfolio'.prices, c, 0) =
              IF AcceptsPrice(c) THEN call'.price
              ELSE IF pc = "update_price" /\ trace'[Len(trace')].prices[c] > 0
                   THEN trace'[Len(trace')].prices[c]
                   ELSE Get(portfolio.prices, c, 0)
    /\ call'.op = "total_value" =>
          /\ call'.ret = Valuation(portfolio)
          /\ portfolio' = portfolio
    /\ pc = "check" =>
          /\ current_value' = Valuation(portfolio)
          /\ portfolio' = portfolio

\* C15: in every reachable Portfolio state total_value() is cash plus the
\* sum over both books of shares times the last accepted price of the
\* instrument, an instrument without a cached price contributing 0; and
\* total_value() changes no state.
C15_TotalValue ==
    /\ [](total_value(portfolio) = Valuation(portfolio))
    /\ [][C15Step]_vars

\* a caller asked for the total while one instrument was held in both books
C15_Witness ==
    /\ call.op = "total_value"
    /\ HoldOf(portfolio, "A") > 0
    /\ PendingOf(portfolio, "A") > 0
    /\ call.ret = portfolio.cash
                    + (HoldOf(portfolio, "A") + PendingOf(portfolio, "A"))
                        * portfolio.prices["A"]

\* ---------------------------------------------------------------------------
\* the attributes of a Portfolio other than the price cache
NotThePrices ==
    {"init_cash", "cash", "positions_hold", "positions_today", "equity_curve",
     "daily_pnl", "daily_trades", "last_total"}

\* the step is a Portfolio.update_price call of the harness
UpdatePriceStep ==
    pc = "harness" /\ ncalls' = ncalls + 1 /\ call'.op = "update_price"

C16Step ==
    UpdatePriceStep =>
        IF call'.price <= 0
        THEN portfolio' = portfolio
        ELSE /\ \A f \in NotThePrices : portfolio'[f] = portfolio[f]
             /\ DOMAIN portfolio'.prices = DOMAIN portfolio.prices \cup {call'.code}
             /\ portfolio'.prices[call'.code] = call'.price
             /\ \A c \in DOMAIN portfolio.prices \ {call'.code} :
                   portfolio'.prices[c] = portfolio.prices[c]

\* C16: update_price(X, p) with p <= 0 changes nothing; with p > 0 it
\* overwrites X's cache entry and nothing else: cash, both books, the other
\* cached prices and the three logs are as before.
C16_UpdatePriceFrame == [][C16Step]_vars

\* a negative price was refused for an instrument that has a cached price
\* and pending shares
C16_Witness ==
    /\ call.op = "update_price"
    /\ call.price < 0
    /\ call.code \in DOMAIN portfolio.prices
    /\ call.code \in DOMAIN portfolio.positions_today
    /\ Len(portfolio.daily_trades) > 0

\* ---------------------------------------------------------------------------
\* the attributes of a Portfolio other than the two position books
NotTheBooks ==
    {"init_cash", "cash", "prices", "equity_curve", "daily_pnl", "daily_trades",
     "last_total"}

C17Step ==
    OnNewDayStep =>
        /\ DOMAIN portfolio'.positions_today = {}
        /\ DOMAIN portfolio'.positions_hold =
              DOMAIN portfolio.positions_hold \cup DOMAIN portfolio.positions_today
        /\ \A c \in Codes :
              HoldOf(portfolio', c) = HoldOf(portfolio, c) + PendingOf(portfolio, c)
        /\ \A f \in NotTheBooks : portfolio'[f] = portfolio[f]
        /\ total_value(portfolio') = total_value(portfolio)
        /\ on_new_day(portfolio') = portfolio'

\* C17: after on_new_day() the pending book is empty and settled[X] is the
\* old settled[X] plus the old pending[X] for every instrument; cash, the
\* price cache and the logs are unchanged, hence so is total_value(); and an
\* immediate second call changes nothing.
C17_SettlePending == [][C17Step]_vars

\* on_new_day has just added pending shares of an instrument to settled
\* shares of the same instrument (more are settled than the last buy bought)
C17_Witness ==
    /\ pc = "harness"
    /\ call.op = "on_new_day"
    /\ Len(portfolio.daily_trades) >= 2
    /\ LET last == portfolio.daily_trades[Len(portfolio.daily_trades)] IN
          /\ last.side = "BUY"
          /\ HoldOf(portfolio, last.code) > last.shares

\* ---------------------------------------------------------------------------
\* the weights asked of the buying rebalance
RoundTripWeights == {<<1, 10>>, <<3, 10>>, <<1, 1>>}

\* from portfolio p, which holds none of x: rebalance to weight w buys n
\* shares; after on_new_day a rebalance to weight 0 sells them
RoundTrip(p, x, w) ==
    LET buy == rebalance(p, Today, <<[code |-> x, weight |-> w]>>, risk_mgr, fee_args)
        sell == rebalance(on_new_day(buy.p), Timestamp(day + 1, 0, 0),
                          <<W(x, 0, 1)>>, risk_mgr, fee_args)
    IN  (/\ x \notin DOMAIN p.positions_hold
         /\ x \notin DOMAIN p.positions_today
         /\ Len(buy.trades) = 1
         /\ buy.trades[1].side = "BUY")
        => /\ buy.trades[1].shares > 0
           /\ Len(sell.trades) = 1
           /\ sell.trades[1].side = "SELL"
           /\ sell.trades[1].code = x
           /\ sell.trades[1].shares = buy.trades[1].shares
           /\ sell.trades[1].price = buy.trades[1].price
           /\ x \notin DOMAIN sell.p.positions_hold
           /\ x \notin DOMAIN sell.p.positions_today
           /\ buy.trades[1].fee = FeeOf(buy.trades[1].amount, fee_args)
           /\ sell.trades[1].fee = FeeOf(sell.trades[1].amount, fee_args)
           /\ sell.p.cash = p.cash - (buy.trades[1].fee + sell.trades[1].fee)

\* C18: from a portfolio holding none of X, a rebalance that buys N > 0
\* shares of X at price p, then on_new_day and a rebalance to weight 0 at
\* the same price, sells exactly N shares, leaves X in neither book and
\* leaves cash at the cash before the buy less the two fees.
C18_RoundTrip ==
    \A x \in Codes, w \in RoundTripWeights : RoundTrip(portfolio, x, w)

\* a caller has made the three calls: the log holds the buy and, a day
\* later, the sale of the same shares, and the instrument is in no book
C18_Witness ==
    /\ call.op = "rebalance"
    /\ Len(call.ret) = 1
    /\ Len(portfolio.daily_trades) = 2
    /\ LET buy == portfolio.daily_trades[1]
           sell == portfolio.daily_trades[2]
       IN  /\ call.ret[1] = sell
           /\ buy.side = "BUY"
           /\ sell.side = "SELL"
           /\ sell.code = buy.code
           /\ sell.shares = buy.shares
           /\ sell.date.date = buy.date.date + 1
           /\ buy.code \notin DOMAIN portfolio.positions_hold
           /\ buy.code \notin DOMAIN portfolio.positions_today
           /\ portfolio.cash = portfolio.init_cash - (buy.fee + sell.fee)

\* ---------------------------------------------------------------------------
\* the timestamps at which the loop skipped instrument c: no bar, or a close
\* that is missing or <= 0
SkippedAt(c) ==
    {trade_days[trace[n].i + 1] :
        n \in {m \in 1..Len(trace) :
                  trace[m].op = "update_price" /\ trace[m].prices[c] = 0}}

\* C19: an instrument with no bar at a timestamp, or with a close missing or
\* <= 0, is skipped for that bar: no BUY or SELL of it is executed at that
\* timestamp (its cached price is left as it was, the other instruments are
\* processed and the loop goes on).
C19_SkippedNotTraded ==
    \A c \in Codes :
        \A k \in 1..Len(portfolio.daily_trades) :
            portfolio.daily_trades[k].code = c
                => portfolio.daily_trades[k].date \notin SkippedAt(c)

\* ---------------------------------------------------------------------------
\* the row of the trade table is the record, its date printed in full
SameTrade(row, rec) ==
    /\ \A f \in {"code", "side", "price", "shares", "amount", "fee"} : row[f] = rec[f]
    /\ row.date.ymd = rec.date.date
    /\ IF row.date.hms = <<>>
       THEN rec.date.hour = 0 /\ rec.date.minute = 0
       ELSE row.date.hms = FormatHHMM(rec.date) \o <<":", "0", "0">>

\* the logs as check_portfolio left them when it last returned false
C20Step ==
    (Halted /\ pc = "after_loop") =>
        /\ pc' = "done"
        /\ Len(result') = 1
        /\ result'[1].equity = portfolio.equity_curve
        /\ result'[1].daily_pnl = portfolio.daily_pnl
        /\ Len(result'[1].trades) = Len(portfolio.daily_trades)
        /\ \A k \in 1..Len(portfolio.daily_trades) :
              SameTrade(result'[1].trades[k], portfolio.daily_trades[k])
        /\ result'[1].final_value = current_value
        /\ result'[1].total_return =
              <<current_value - portfolio.init_cash, portfolio.init_cash>>
        /\ result'[1].drawdown = calc_drawdown(portfolio.equity_curve)

\* C20: a risk breach ends the run without raising: run_backtest returns a
\* result (final value, total return, drawdown summary and the trade, equity
\* and P&L tables) that holds every trade record, equity point and P&L point
\* appended before the halt, none altered and none dropped.
C20_HaltReturnsResult ==
    /\ [](Halted => pc \in {"after_loop", "done"})
    /\ [][C20Step]_vars

\* a halted run has returned: its tables hold trades and daily records of
\* the days before the halt, and the drawdown summary names a drawdown
C20_Witness ==
    /\ Halted
    /\ pc = "done"
    /\ Len(result[1].trades) > 0
    /\ Len(result[1].equity) > 0
    /\ Len(result[1].daily_pnl) > 0
    /\ result[1].drawdown.start # <<>>

\* ---------------------------------------------------------------------------
\* the running peak P_k = max(v[1..k]) of a curve and the drawdown at k
RunningPeak(curve, k) == SetMax({curve[j].total : j \in 1..k})
DrawdownAt(curve, k) ==
    <<RunningPeak(curve, k) - curve[k].total, RunningPeak(curve, k)>>

\* the first index whose drawdown is the largest of the curve
FirstDeepest(curve) ==
    CHOOSE m \in 1..Len(curve) :
        /\ \A j \in 1..Len(curve) : RatLeq(DrawdownAt(curve, j), DrawdownAt(curve, m))
        /\ \A j \in 1..(m - 1) : ~RatLeq(DrawdownAt(curve, m), DrawdownAt(curve, j))

\* the earliest index at which the curve has the peak in force at m
PeakStart(curve, m) ==
    CHOOSE s \in 1..m :
        /\ curve[s].total = RunningPeak(curve, m)
        /\ \A j \in 1..(s - 1) : curve[j].total # RunningPeak(curve, m)

NoDrawdown(ret) ==
    ret.max_drawdown[1] = 0 /\ ret.start = <<>> /\ ret.end = <<>>

\* what calc_drawdown is to return for a curve
DrawdownAsClaimed(curve, ret) ==
    IF curve = <<>> THEN NoDrawdown(ret)
    ELSE LET m == FirstDeepest(curve) IN
         IF DrawdownAt(curve, m)[1] = 0 THEN NoDrawdown(ret)
         ELSE /\ ret.max_drawdown[1] * DrawdownAt(curve, m)[2]
                    = DrawdownAt(curve, m)[1] * ret.max_drawdown[2]
              /\ ret.end = <<curve[m].date>>
              /\ ret.start = <<curve[PeakStart(curve, m)].date>>

\* C21: calc_drawdown over an equity curve returns max_drawdown = the
\* largest (P_i - v_i) / P_i with P_i the running peak, start = the date of
\* the earliest point that has the peak in force where that maximum is first
\* reached, and end = the date of the first point reaching the maximum; for
\* [100, 120, 90, 110, 80, 130] it is (120 - 80) / 120 from the 120 point to
\* the 80 point; an empty or never declining curve gives 0 with start and
\* end None.
C21_MaxDrawdown ==
    /\ call.op = "calc_drawdown" =>
          DrawdownAsClaimed(portfolio.equity_curve, call.ret)
    /\ (/\ call.op = "calc_drawdown"
        /\ portfolio.equity_curve = CurveOf(ExampleTotals))
          => /\ call.ret.max_drawdown[1] * 120 = 40 * call.ret.max_drawdown[2]
             /\ call.ret.start = <<Timestamp(2, 0, 0)>>
             /\ call.ret.end = <<Timestamp(5, 0, 0)>>

\* calc_drawdown has been applied to the curve of the example
C21_Witness ==
    /\ call.op = "calc_drawdown"
    /\ portfolio.equity_curve = CurveOf(ExampleTotals)
    /\ call.ret.start # <<>>

\* ---------------------------------------------------------------------------
Zero == <<0, 1>>

\* what cap_position is to return for weight w under the limit
Clamped(w, limit) ==
    IF w[1] < 0 THEN Zero
    ELSE IF w[1] * limit[2] > limit[1] * w[2] THEN limit
    ELSE w

C22Call ==
    call.op = "cap_position" =>
        /\ call.ret = Clamped(call.weight, risk_mgr.max_position_pct)
        /\ RatLeq(Zero, call.ret)
        /\ RatLeq(call.ret, risk_mgr.max_position_pct)
        /\ cap_position(risk_mgr, call.ret) = call.ret
        /\ \A w \in RiskWeights :
              RatLeq(call.weight, w) => RatLeq(call.ret, cap_position(risk_mgr, w))

\* C22: cap_position(w) returns 0 for w < 0, w for 0 <= w <=
\* max_position_pct and max_position_pct above that, so the result lies in
\* [0, max_position_pct]; it is idempotent, monotone in w, and changes no
\* RiskManager state, the peak included.
C22_CapPosition ==
    /\ []C22Call
    /\ [][call'.op = "cap_position" => risk_mgr' = risk_mgr]_vars

\* a weight above the limit was capped by a manager that has a peak
C22_Witness ==
    /\ call.op = "cap_position"
    /\ ~RatLeq(call.weight, risk_mgr.max_position_pct)
    /\ call.ret = risk_mgr.max_position_pct
    /\ risk_mgr.peak_value # <<>>

\* ---------------------------------------------------------------------------
\* the ratio lies in (0, 1]
InHalfOpenUnit(x) == x[1] > 0 /\ RatLeq(x, <<1, 1>>)

C23Call ==
    call.op = "RiskManager" =>
        IF /\ InHalfOpenUnit(call.max_position_pct)
           /\ InHalfOpenUnit(call.max_drawdown)
           /\ (call.stop_loss_pct = <<>> \/ InHalfOpenUnit(call.stop_loss_pct[1]))
        THEN /\ pc = "risk_harness"
             /\ risk_mgr = [max_position_pct |-> call.max_position_pct,
                            max_drawdown |-> call.max_drawdown,
                            stop_loss_pct |-> call.stop_loss_pct,
                            peak_value |-> <<>>]
        ELSE /\ pc = "risk_raised"
             /\ risk_mgr = NoRiskManager

\* C23: constructing a RiskManager fails with an error, and no manager
\* exists, whenever max_position_pct or max_drawdown lies outside (0, 1] or
\* a supplied stop_loss_pct does; it succeeds for every combination inside
\* those ranges, stop_loss_pct absent or not, and starts with no peak.
C23_ConstructorValidates ==
    /\ C23Call
    /\ pc = "risk_raised" => call.op = "RiskManager"

\* a construction was refused for its stop_loss_pct alone
C23_Witness ==
    /\ pc = "risk_raised"
    /\ InHalfOpenUnit(call.max_position_pct)
    /\ InHalfOpenUnit(call.max_drawdown)
    /\ call.stop_loss_pct # <<>>

\* ---------------------------------------------------------------------------
C24Step ==
    (pc = "scheduler_harness" /\ call'.op = "run_daily") =>
        IF call'.time = AFTER_CLOSE
        THEN /\ call'.ok
             /\ scheduler'.after_close_tasks =
                   Append(scheduler.after_close_tasks, call'.func)
             /\ scheduler'.daily_tasks = scheduler.daily_tasks
        ELSE IF Len(call'.time) = 5 /\ call'.time[3] = ":"
        THEN /\ call'.ok
             /\ scheduler'.daily_tasks =
                   Append(scheduler.daily_tasks,
                          [func |-> call'.func, time |-> call'.time])
             /\ scheduler'.after_close_tasks = scheduler.after_close_tasks
        ELSE /\ ~call'.ok
             /\ scheduler' = scheduler

\* C24: run_daily with the trigger 'after_close' appends the callback to
\* the after-close list only; with a string of exactly 5 characters that has
\* ':' at index 2 it appends to the time-of-day list only; any other trigger
\* raises an error and leaves both registries unchanged.
C24_Registration == [][C24Step]_vars

\* a five-character trigger without the colon was refused by a scheduler
\* that holds a callback in each registry
C24_Witness ==
    /\ call.op = "run_daily"
    /\ ~call.ok
    /\ Len(call.time) = 5
    /\ Len(scheduler.daily_tasks) > 0
    /\ Len(scheduler.after_close_tasks) > 0

\* ---------------------------------------------------------------------------
\* the position of a code in a list of target weights
IndexOf(tw, code) == CHOOSE k \in 1..Len(tw) : tw[k].code = code

\* the records follow the order in which the targets were iterated
InTargetOrder(trades, tw) ==
    /\ \A k \in 1..Len(trades) : \E n \in 1..Len(tw) : tw[n].code = trades[k].code
    /\ \A k \in 1..(Len(trades) - 1) :
          IndexOf(tw, trades[k].code) < IndexOf(tw, trades[k + 1].code)

WellFormedTrade(t) ==
    /\ t.side \in {"BUY", "SELL"}
    /\ t.shares > 0
    /\ t.amount = t.price * t.shares

C25Step ==
    LET old == portfolio.daily_trades
        new == portfolio'.daily_trades
    IN  /\ Len(new) >= Len(old)
        /\ SubSeq(new, 1, Len(old)) = old
        /\ Len(new) > Len(old) => RebalanceStep
        /\ RebalanceStep =>
              /\ call'.op = "rebalance"
              /\ call'.ret = SubSeq(new, Len(old) + 1, Len(new))
              /\ InTargetOrder(call'.ret, call'.target_weights)
        /\ \A k \in 1..Len(new) : WellFormedTrade(new[k])

\* C25: the trade log is append-only: every operation leaves the records
\* appended before unchanged and in place; only rebalance appends, and the
\* list it returns is exactly the records it appended in that call, in
\* execution order; every record has side BUY or SELL, shares > 0 and
\* amount = price * shares.
C25_AppendOnlyLog == [][C25Step]_vars

\* a rebalance has appended two records, a sale and then a buy, behind
\* records of an earlier call
C25_Witness ==
    /\ call.op = "rebalance"
    /\ Len(call.ret) = 2
    /\ call.ret[1].side = "SELL"
    /\ call.ret[2].side = "BUY"
    /\ Len(portfolio.daily_trades) > 2
    /\ SubSeq(portfolio.daily_trades, Len(portfolio.daily_trades) - 1,
              Len(portfolio.daily_trades)) = call.ret

\* ---------------------------------------------------------------------------
\* every entry of the book is a share count of at least 1
PositiveBook(book) == \A c \in DOMAIN book : book[c] \in Nat \ {0}

\* C26: in every reachable Portfolio state every entry of the settled book
\* and of the pending book is a strictly positive integer share count: no
\* negative and no zero entry persists in either book after any operation.
C26_PositiveShares ==
    /\ PositiveBook(portfolio.positions_hold)
    /\ PositiveBook(portfolio.positions_today)

\* a rebalance sold part of a settled holding while the pending book has
\* an entry: both books hold shares
C26_Witness ==
    /\ call.op = "rebalance"
    /\ \E k \in 1..Len(call.ret) :
          /\ call.ret[k].side = "SELL"
          /\ call.ret[k].code \in DOMAIN portfolio.positions_hold
    /\ DOMAIN portfolio.positions_today # {}

\* ---------------------------------------------------------------------------
\* the fee of a trade of the given notional under the fee arguments, the
\* notional being a whole number of yuan
FeeAsClaimed(notional, fee) ==
    IF fee.fee_mode = "rate" THEN (notional \div PER_MILLE) * fee.fee_rate
    ELSE (notional \div PER_MILLE) * fee.fee_rate_pct + fee.fee_fixed

C27Step ==
    RebalanceStep =>
        /\ \A k \in 1..Len(call'.ret) :
              /\ call'.ret[k].amount = call'.ret[k].price * call'.ret[k].shares
              /\ call'.ret[k].amount % PER_MILLE = 0
              /\ call'.ret[k].fee = FeeAsClaimed(call'.ret[k].amount, fee_args)
        /\ portfolio'.cash = portfolio.cash + FlowOfCodes(call'.ret, Codes, 1)

\* C27: the fee of every executed trade is computed from its notional
\* price * shares by one rule on both legs: notional * fee_rate in mode
\* 'rate', notional * fee_rate_pct + fee_fixed in mode 'rate+fixed'; and
\* the fee stored in the record is what cash was charged: a buy takes
\* notional + fee from cash, a sale adds notional - fee.
C27_FeeRule == [][C27Step]_vars

\* a rebalance in mode 'rate+fixed' has sold shares bought by an earlier one
C27_Witness ==
    /\ call.op = "rebalance"
    /\ fee_args.fee_mode = "rate+fixed"
    /\ Len(call.ret) = 1
    /\ call.ret[1].side = "SELL"
    /\ Len(portfolio.daily_trades) >= 2
    /\ portfolio.daily_trades[1].side = "BUY"

\* ---------------------------------------------------------------------------
\* run_backtest has returned or has raised
Ended == pc \in {"done", "raised"}

C28Step ==
    \* a timestamp is visited once, the next one is the one after it
    /\ i' \in {i, i + 1}
    /\ i' = i + 1 <=> (pc = "record" /\ pc' = "new_day")
    /\ pc' = "new_day" => pc = "record"
    /\ i' < Len(trade_days)
    \* the loop ends after the last timestamp or at a false check
    /\ (pc # "after_loop" /\ pc' = "after_loop") =>
          \/ pc = "record" /\ i = Len(trade_days) - 1
          \/ pc = "check" /\ Halted'
    /\ (pc = "check" /\ Halted') => pc' = "after_loop"
    \* the aggregation follows both ends of the loop
    /\ pc = "after_loop" => (pc' = "done" /\ Len(result') = 1)
    /\ pc' = "done" => pc = "after_loop"

\* C28: the replay loop always terminates: each timestamp of the replay
\* sequence is visited at most once, in increasing order; the loop ends
\* after the last timestamp or at the first bar where check_portfolio
\* returns false, a risk halt being the only early end without an
\* exception; and in both cases the aggregation after the loop runs.
C28_Terminates == <>Ended /\ [][C28Step]_vars

\* a run of the longest calendar has visited every timestamp and returned
C28_Witness ==
    /\ pc = "done"
    /\ ~Halted
    /\ Len(trade_days) = MaxBars
    /\ i = MaxBars - 1

\* ---------------------------------------------------------------------------
\* the session day of the bar an event of the trace belongs to
DayOfEvent(e) == trade_days[e.i + 1].date

\* the operations that move the portfolio on to a bar
BarOperations == {"on_new_day", "update_price", "rebalance"}

\* the last check_portfolio of a bar of session day d before position n
LastCheckOf(d, n) ==
    SetMax({m \in Checks(trace) : m < n /\ DayOfEvent(trace[m]) = d})

\* the record_daily at position n of the trace, the k-th of the run, is made in
\* the end-of-day state of its session day
RecordedAtEndOfDay(n, k) ==
    LET d == trace[n].date.date IN
    \* no bar of a later day has touched the portfolio
    /\ \A m \in 1..(n - 1) :
          trace[m].op \in BarOperations => DayOfEvent(trace[m]) <= d
    \* the last bar of the day has been rebalanced
    /\ \E m \in 1..(n - 1) :
          /\ trace[m].op = "rebalance"
          /\ DayOfEvent(trace[m]) = d
          /\ trace[m].i + 1 = Len(trade_days) \/ trade_days[trace[m].i + 2].date # d
    \* the recorded total is the value the portfolio had after that rebalance
    /\ k <= Len(portfolio.equity_curve) =>
          portfolio.equity_curve[k].total = trace[LastCheckOf(d, n)].value

\* C29: in intraday mode the record_daily call for session day D is made while
\* the portfolio is still in its end-of-day-D state: after the last bar of D
\* has been rebalanced and before any on_new_day, price update or rebalance of
\* a timestamp of the following day; the recorded total of day D does not
\* depend on the next day's first bar.
C29_IntradayRecordAtDayEnd ==
    (pc \in Positions /\ is_minute_data) =>
      \A n \in EventsOf("record_daily") :
          RecordedAtEndOfDay(n, Cardinality({m \in EventsOf("record_daily") : m <= n}))

\* ---------------------------------------------------------------------------
\* the price of code c the bar of index k (0-based) has handed to update_price,
\* 0 when the bar was skipped
PriceAtBar(c, k) ==
    LET n == CHOOSE m \in EventsOf("update_price") : trace[m].i = k
    IN  trace[n].prices[c]

\* the price of code c in the cache after the price updates of bar k, 0 when
\* the code has never been priced
RECURSIVE CachedAfterBar(_, _)
CachedAfterBar(c, k) ==
    IF k < 0 THEN 0
    ELSE IF PriceAtBar(c, k) # 0 THEN PriceAtBar(c, k)
    ELSE CachedAfterBar(c, k - 1)

\* no cached price at bar k differs from its value at the bar before
PricesUnchangedAt(k) ==
    \A c \in Codes : CachedAfterBar(c, k) = CachedAfterBar(c, k - 1)

\* C30: the daily pnl isolates price moves from capital flows: in daily-bar
\* mode, on a day on which no cached price differs from its value at the
\* previous daily record, the recorded pnl is never positive, whatever trades
\* were executed that day.
C30_NoGainAtUnchangedPrices ==
    (pc \in Positions /\ ~is_minute_data) =>
      \A n \in 2..Len(portfolio.daily_pnl) :
          PricesUnchangedAt(n - 1) => portfolio.daily_pnl[n].pnl <= 0

\* ---------------------------------------------------------------------------
\* the rows of the data mapping: the index of each instrument
IndexOfCode(c) ==
    IF c = FirstCode THEN {trade_days[k] : k \in 1..Len(trade_days)}
    ELSE OtherIndex(other_data, trade_days)

\* the union of the timestamps of all instruments
UnifiedCalendar == UNION {IndexOfCode(c) : c \in Codes}

\* minutes since the start of day 0
MinuteOf(ts) == (ts.date * 24 + ts.hour) * 60 + ts.minute

\* the timestamps the loop has replayed, in the order of the replay
Replayed ==
    LET at == EventsOf("update_price")
    IN  [k \in 1..Cardinality(at) |-> trade_days[trace[NthOf(at, k)].i + 1]]

\* a run that has returned after the last timestamp
RunCompleted == pc = "done" /\ ~Halted

\* C31: the sequence of timestamps replayed by the engine is the unified
\* calendar of the data mapping: the union of the timestamps of all
\* instruments, each visited exactly once in increasing order, so that every
\* bar of every instrument reaches portfolio.update_price.
C31_UnifiedCalendar ==
    RunCompleted =>
      /\ \A k \in 1..(Len(Replayed) - 1) :
            MinuteOf(Replayed[k]) < MinuteOf(Replayed[k + 1])
      /\ Range(Replayed) = UnifiedCalendar

\* ---------------------------------------------------------------------------
\* the events of the scheduler: a dispatch, or a call of a registered callback
SchedulerEvents ==
    {n \in 1..Len(trace) :
        trace[n].op \in {"scheduler.on_bar"} \cup TimedCallbacks \cup AfterCloseCallbacks}

\* C32: in daily-bar mode (all sampled timestamps at 00:00) no callback
\* registered with the strategy's scheduler is ever invoked during the run,
\* whatever its trigger; scheduler dispatch happens only in runs detected as
\* intraday.
C32_NoDispatchInDailyMode ==
    (pc \in Positions /\ ~is_minute_data) => SchedulerEvents = {}

\* a daily run of the longest calendar, with a timed and an after-close
\* callback registered, has returned
C32_Witness ==
    /\ RunCompleted
    /\ ~is_minute_data
    /\ Len(trade_days) = MaxBars
    /\ TimedCallbacks # {}
    /\ AfterCloseCallbacks # {}

\* ---------------------------------------------------------------------------
\* what the orders of a trade log have added to the cash, from record k on
RECURSIVE NetCash(_, _)
NetCash(trades, k) ==
    IF k > Len(trades) THEN 0
    ELSE (IF trades[k].side = "BUY"
          THEN -(trades[k].amount + trades[k].fee)
          ELSE trades[k].amount - trades[k].fee)
         + NetCash(trades, k + 1)

CashConserved ==
    portfolio.cash = portfolio.init_cash + NetCash(portfolio.daily_trades, 1)

\* only a rebalance that executes an order changes the cash
C33Step ==
    portfolio'.cash # portfolio.cash =>
        /\ call'.op = "rebalance"
        /\ call'.ret # <<>>

\* C33 (cash conservation): in every reachable Portfolio state, cash =
\* init_cash - sum over BUY records of (amount + fee) + sum over SELL records
\* of (amount - fee), taken over the whole trade log; no operation other than
\* an executed order changes cash.
C33_CashConservation == []CashConserved /\ [][C33Step]_vars

\* the log holds a buy and a sell, and a later operation was not a rebalance
C33_Witness ==
    /\ pc = "harness"
    /\ \E k \in 1..Len(portfolio.daily_trades) : portfolio.daily_trades[k].side = "BUY"
    /\ \E k \in 1..Len(portfolio.daily_trades) : portfolio.daily_trades[k].side = "SELL"
    /\ portfolio.cash # portfolio.init_cash
    /\ call.op = "record_daily"

\* ---------------------------------------------------------------------------
\* the shares of code x the orders of a trade log have added, from record k on
RECURSIVE NetShares(_, _, _)
NetShares(trades, x, k) ==
    IF k > Len(trades) THEN 0
    ELSE (IF trades[k].code # x THEN 0
          ELSE IF trades[k].side = "BUY" THEN trades[k].shares
          ELSE -trades[k].shares)
         + NetShares(trades, x, k + 1)

\* settled[x] + pending[x]
Held(p, x) == Get(p.positions_hold, x, 0) + Get(p.positions_today, x, 0)

SharesConserved ==
    \A x \in Codes : Held(portfolio, x) = NetShares(portfolio.daily_trades, x, 1)

\* on_new_day, update_price and record_daily leave the sum unchanged
C34Step ==
    call'.op \in {"on_new_day", "update_price", "record_daily"} =>
        \A x \in Codes : Held(portfolio', x) = Held(portfolio, x)

\* C34 (share conservation): in every reachable Portfolio state and for every
\* instrument X, settled[X] + pending[X] equals the shares of all BUY records
\* of X minus the shares of all SELL records of X in the trade log;
\* on_new_day, update_price and record_daily leave this sum unchanged.
C34_ShareConservation == []SharesConserved /\ [][C34Step]_vars

\* an instrument with a sell in the log still has a settled position, and the
\* last operation was on_new_day
C34_Witness ==
    /\ pc = "harness"
    /\ call.op = "on_new_day"
    /\ \E x \in Codes :
          /\ Get(portfolio.positions_hold, x, 0) > 0
          /\ \E k \in 1..Len(portfolio.daily_trades) :
                /\ portfolio.daily_trades[k].code = x
                /\ portfolio.daily_trades[k].side = "SELL"

\* ---------------------------------------------------------------------------
\* the cash the loop of the call holds when it reaches item k: the cash before
\* the call and the flows of the orders executed for the items before k
CashAtItem(ret, tw, k) ==
    portfolio.cash + FlowOfCodes(ret, {tw[m].code : m \in 1..(k - 1)}, 1)

\* the records of the call for item k are what the total measured before the
\* call and the cash at item k demand
ItemOutcome(ret, tw, k) ==
    LET c == tw[k].code
        price == Get(portfolio.prices, c, 0)
        diff == DiffBefore(portfolio, risk_mgr, tw, k)
        qty == IF -diff <= HoldOf(portfolio, c) THEN -diff ELSE HoldOf(portfolio, c)
        cost == diff * price
        executed ==
            /\ price > 0
            /\ \/ diff < 0 /\ qty > 0
               \/ diff > 0 /\ CashAtItem(ret, tw, k) >= cost + FeeOf(cost, fee_args)
    IN  IF executed
        THEN /\ Cardinality(RecordsOf(ret, c)) = 1
             /\ \A j \in RecordsOf(ret, c) :
                   /\ ret[j].side = IF diff > 0 THEN "BUY" ELSE "SELL"
                   /\ ret[j].shares = IF diff > 0 THEN diff ELSE qty
                   /\ ret[j].price = price
        ELSE RecordsOf(ret, c) = {}

C35Step ==
    (RebalanceStep /\ call'.op = "rebalance") =>
      LET ret == call'.ret
          tw == call'.target_weights
      IN  /\ InTargetOrder(ret, tw)
          /\ \A k \in 1..Len(tw) : ItemOutcome(ret, tw, k)

\* C35: within one rebalance call every instrument's target share count is
\* computed from the total value measured once, before the first order of
\* that call; orders execute in the iteration order of target_weights, and
\* each buy's cash check sees exactly the cash left by the orders executed
\* before it in the same call: a buy listed before a sell cannot be funded by
\* that sell's proceeds, while a buy listed after it can.
C35_OrderOfExecution == [][C35Step]_vars

\* a call has sold one instrument and then bought another with the proceeds:
\* the cash before the call did not cover the buy
C35_Witness ==
    /\ call.op = "rebalance"
    /\ Len(call.target_weights) = 2
    /\ Len(call.ret) = 2
    /\ call.ret[1].side = "SELL"
    /\ call.ret[2].side = "BUY"
    /\ portfolio.cash - (call.ret[1].amount - call.ret[1].fee) < 0

\* ---------------------------------------------------------------------------
\* the position of a bought instrument is within the cap on the total value
\* measured at the start of the call
C36Step ==
    (RebalanceStep /\ call'.op = "rebalance") =>
      \A j \in 1..Len(call'.ret) :
          call'.ret[j].side = "BUY" =>
              Held(portfolio', call'.ret[j].code) * call'.ret[j].price
                  <= MulDivFloor(total_value(portfolio),
                                 risk_mgr.max_position_pct[1],
                                 risk_mgr.max_position_pct[2])

\* C36 (position cap): immediately after rebalance executes a BUY of
\* instrument X, (settled[X] + pending[X]) * price[X] <= max_position_pct *
\* (total value measured at the start of that rebalance call), for every
\* requested weight, including weights above 1 and below 0.
C36_PositionCap == [][C36Step]_vars

\* a call that asked for a weight above 1 has bought
C36_Witness ==
    /\ call.op = "rebalance"
    /\ call.target_weights = <<W("A", 3, 2)>>
    /\ Len(call.ret) = 1
    /\ call.ret[1].side = "BUY"

\* ---------------------------------------------------------------------------
\* the values for which check_portfolio has returned true, in the order of
\* the calls
PassedValues ==
    LET at == {n \in Checks(trace) : trace[n].ret = "true"}
    IN  [k \in 1..Cardinality(at) |-> trace[NthOf(at, k)].value]

TotalsOf(curve) == [k \in 1..Len(curve) |-> curve[k].total]

\* a daily-bar run has returned its result
DailyRunReturned == pc = "done" /\ ~is_minute_data

\* C37: in daily-bar mode the equity-curve totals are exactly the sequence of
\* values for which the live check_portfolio returned true, in the same
\* order; hence the max_drawdown reported in the result is always strictly
\* below the risk manager's max_drawdown threshold, also for a run that was
\* stopped by the breaker.
C37_OfflineDrawdownBelowLimit ==
    DailyRunReturned =>
      /\ TotalsOf(result[1].equity) = PassedValues
      /\ FracLess(result[1].drawdown.max_drawdown[1],
                  result[1].drawdown.max_drawdown[2],
                  risk_mgr.max_drawdown[1], risk_mgr.max_drawdown[2])

\* a daily run stopped by the breaker has returned a positive drawdown
C37_Witness ==
    /\ DailyRunReturned
    /\ Halted
    /\ Len(result[1].equity) >= 2
    /\ result[1].drawdown.max_drawdown[1] > 0

\* ---------------------------------------------------------------------------
Last(seq) == seq[Len(seq)]

\* C38: on a run that completes without a risk halt, in daily and in intraday
\* mode, final_value in the result equals the total of the last equity-curve
\* point and of the last daily P&L point, and the cash of the last
\* equity-curve point equals the portfolio's final cash.
C38_FinalValueIsLastPoint ==
    RunCompleted =>
      /\ result[1].equity # <<>>
      /\ result[1].daily_pnl # <<>>
      /\ result[1].final_value = Last(result[1].equity).total
      /\ result[1].final_value = Last(result[1].daily_pnl).total
      /\ Last(result[1].equity).cash = portfolio.cash

\* an intraday run over two session days that traded at its last bar has
\* completed
C38_Witness ==
    /\ RunCompleted
    /\ is_minute_data
    /\ Len(result[1].equity) >= 2
    /\ trades_today # <<>>
====
